---- MODULE Spec2Model ----
(***************************************************************************)
(* A model of armor's configuration engine (pkg/proxy/service): the        *)
(* Configure operation of the proxy service, from request validation and   *)
(* retrieval, through classification of the bundle's files, to the Vault   *)
(* calls of the three namespaces and the ConfigState handed back.          *)
(*                                                                         *)
(* Strings that the code slices are sequences of tokens; "/" is a token of *)
(* its own, so the prefix and suffix tests of the classifier are the       *)
(* sequence operations the code performs.  The staging root is taken to be *)
(* a clean path, so BasePath is a literal prefix of every FullPath.        *)
(***************************************************************************)
EXTENDS Integers, Sequences, FiniteSets, TLC

\* The largest number of files one fetched bundle holds.
MaxFiles == 3

----------------------------------------------------------------------------
\* Go string helpers over token sequences.

HasPrefix(s, lit) == Len(s) >= Len(lit) /\ SubSeq(s, 1, Len(lit)) = lit

HasSuffix(s, lit) ==
    Len(s) >= Len(lit) /\ SubSeq(s, Len(s) - Len(lit) + 1, Len(s)) = lit

\* s[n:]
SliceFrom(s, n) == SubSeq(s, n + 1, Len(s))

\* s[:n]
SliceTo(s, n) == SubSeq(s, 1, n)

\* strings.LastIndex(path, "/") + 1: the length of the directory part.
RECURSIVE LastSlash(_, _)
LastSlash(path, i) ==
    IF i = 0 THEN 0
    ELSE IF path[i] = "/" THEN i
    ELSE LastSlash(path, i - 1)

\* filepath.Split: the directory part of a path, with its trailing "/".
SplitDir(path) == SliceTo(path, LastSlash(path, Len(path)))

----------------------------------------------------------------------------
\* Error values.

NoErr == "nil"
ErrDestUnset == "policy download dest not set in config"
ErrDestDoesNotExist == "policy download dest does not exist"
ErrDestStatFail == "policy download dest failed being stat'd"
ErrSrcMalformed == "policy source does not follow prescribed layout"
ErrSrcReqEmpty ==
    "no valid vault configuration files were found in source directory submitted"
ErrStateSysMountAddReqEmpty ==
    "no valid vault configuration requests submitted for adding /sys/mounts/"
ErrStateSysMountUpdReqEmpty ==
    "no valid vault configuration requests submitted for tuning /sys/mounts/"
ErrStateSysAuthAddReqEmpty ==
    "no valid vault configuration requests submitted for adding /sys/auth/"
ErrStateSysAuthDelReqEmpty ==
    "no valid vault configuration requests submitted for deleting /sys/auth/"
ErrStateSysPolicyAddReqEmpty ==
    "no valid vault configuration requests submitted for adding /sys/policy/"
ErrStateSysPolicyDelReqEmpty ==
    "no valid vault configuration requests submitted for deleting /sys/policy/"
\* fmt.Sprintf("%s validation failed on '%s' check", Namespace, Tag)
ErrURLRequired == "ConfigOptions.URL validation failed on 'required' check"
ErrTokenRequired == "ConfigOptions.Token validation failed on 'required' check"
ErrInvalidOptions == "Invalid configuration option(s)"
\* Errors that come from collaborators: the getter, os.Stat, encoding/json,
\* the Vault client factory and the Vault API.
ErrGetter == "getter: source could not be fetched"
ErrStat == "stat: permission denied"
ErrJSON == "json: cannot unmarshal"
ErrClient == "vault client could not be built"
ErrVault == "vault: api call failed"

\* ConfigActionType
sysMountAdd == 0
sysMountUpdate == 1
sysAuthAdd == 2
sysAuthDelete == 3
sysPolicyAdd == 4
sysPolicyDelete == 5

----------------------------------------------------------------------------
\* The files a bundle may hold under data/, in the order filepath.Walk
\* discovers them (lexical, depth first).  dir is the directory relative to
\* data/, name the file name, json the decoded content of a well-formed file.

EmptyObj == [k \in {} |-> k]

MountAObj ==
    [type |-> "postgresql",
     config |-> [default_lease_ttl |-> "7h", max_lease_ttl |-> "21h"]]

MountGObj ==
    [type |-> "aws", description |-> "aws",
     config |-> [default_lease_ttl |-> "8h", max_lease_ttl |-> "24h"]]

TuneObj == [default_lease_ttl |-> "8h", max_lease_ttl |-> "24h"]

AuthObj == [type |-> "userpass", description |-> "users"]

PolicyObj == [rules |-> "path sys { policy = deny }"]

JsonName(f) == <<f, ".", "json">>

FileUniverse ==
    << [dir |-> <<"/", "other", "/", "x", "/">>, name |-> JsonName("f"), json |-> EmptyObj],
       [dir |-> <<"/", "sys", "/", "auth", "/", "a", "/", "disable", "/">>, name |-> JsonName("f"), json |-> EmptyObj],
       [dir |-> <<"/", "sys", "/", "auth", "/", "a", "/">>, name |-> JsonName("f"), json |-> AuthObj],
       [dir |-> <<"/", "sys", "/", "auth", "/", "a", "/", "tune", "/">>, name |-> JsonName("f"), json |-> TuneObj],
       [dir |-> <<"/", "sys", "/", "mounts", "/", "a", "/", "b", "/">>, name |-> JsonName("f"), json |-> MountGObj],
       [dir |-> <<"/", "sys", "/", "mounts", "/", "a", "/", "disable", "/">>, name |-> JsonName("f"), json |-> EmptyObj],
       [dir |-> <<"/", "sys", "/", "mounts", "/", "a", "/">>, name |-> JsonName("f"), json |-> MountAObj],
       [dir |-> <<"/", "sys", "/", "mounts", "/", "a", "/">>, name |-> JsonName("g"), json |-> MountGObj],
       [dir |-> <<"/", "sys", "/", "mounts", "/", "a", "/">>, name |-> <<"readme">>, json |-> EmptyObj],
       [dir |-> <<"/", "sys", "/", "mounts", "/", "a", "/", "tune", "/">>, name |-> JsonName("f"), json |-> TuneObj],
       [dir |-> <<"/", "sys", "/", "mounts", "/">>, name |-> JsonName("f"), json |-> MountAObj],
       [dir |-> <<"/", "sys", "/", "mounts", "/", "tune", "/">>, name |-> JsonName("f"), json |-> MountGObj],
       [dir |-> <<"/", "sys", "/", "policy", "/", "a", "/", "disable", "/">>, name |-> JsonName("f"), json |-> EmptyObj],
       [dir |-> <<"/", "sys", "/", "policy", "/", "a", "/">>, name |-> JsonName("f"), json |-> PolicyObj],
       [dir |-> <<"/", "sys", "/", "policy", "/", "a", "/", "tune", "/">>, name |-> JsonName("f"), json |-> TuneObj],
       [dir |-> <<"/", "sys", "/", "policy", "/", "b", "/">>, name |-> <<"f", ".", "json", ".", "bak">>, json |-> PolicyObj],
       [dir |-> <<"/", "sys", "/", "mounts", "/", "a", "/", "disable", "/", "tune", "/">>, name |-> JsonName("f"), json |-> TuneObj],
       [dir |-> <<"/", "sys", "/", "auth", "/", "a", "/", "tune", "/", "disable", "/">>, name |-> JsonName("f"), json |-> EmptyObj],
       [dir |-> <<"/", "sys", "/", "auth", "/", "disable", "/">>, name |-> JsonName("f"), json |-> AuthObj] >>

FileIds == 1 .. Len(FileUniverse)

\* The files whose action word sits below another action word or right under
\* the namespace; a bundle that holds one of them holds nothing else.
NestedFiles == {12} \cup { i \in FileIds : i > 16 }

\* The file sets a bundle may hold under data/.
BundleFiles ==
    { s \in SUBSET { i \in FileIds : i <= 16 } : Cardinality(s) <= MaxFiles }

\* The files of a bundle whose content is not well-formed JSON: at most one,
\* to keep the inputs small.
BadFiles(files) == { s \in SUBSET files : Cardinality(s) <= 1 }

----------------------------------------------------------------------------
\* The staging area.

StagingRoot == <<"/", "stage">>

\* SrcDest with one staging subdirectory for every request.
SrcDestShared(requestid) == StagingRoot \o <<"/", "requests">>

\* srcdest := policyConfigDir + "/" + requestid
SrcDest(requestid) == StagingRoot \o <<"/", ToString(requestid)>>

\* srcdata := srcdest + "/data"
SrcData(requestid) == SrcDest(requestid) \o <<"/", "data">>

\* regexp.MatchString(".json", name): some character followed by "json",
\* anywhere in the name.
MatchExt(name) == \E i \in 2 .. Len(name) : name[i] = "json"

\* [lo..hi] of the bundle's file ids as a sequence in walk order.
RECURSIVE WalkOrder(_, _)
WalkOrder(ids, i) ==
    IF i > Len(FileUniverse) THEN <<>>
    ELSE (IF i \in ids THEN <<i>> ELSE <<>>) \o WalkOrder(ids, i + 1)

\* A freshly discovered file: only FullPath, BasePath and File are set.
NewMeta(searchpath, i) ==
    [FullPath |-> searchpath \o FileUniverse[i].dir \o FileUniverse[i].name,
     BasePath |-> searchpath,
     VaultEndPoint |-> <<>>,
     ConfigPath |-> <<>>,
     Action |-> 0,
     File |-> FileUniverse[i].name]

\* filesByExt(searchpath, ".json") over a staged bundle whose data entry is
\* `entry`: a missing search path gives no files; a regular file named data
\* is walked as a single entry whose name does not match.
filesByExt(searchpath, entry, ids) ==
    IF entry # "dir" THEN <<>>
    ELSE LET all == WalkOrder(ids, 1)
             metas == [n \in 1 .. Len(all) |-> NewMeta(searchpath, all[n])]
         IN  SelectSeq(metas, LAMBDA m : MatchExt(m.File))

----------------------------------------------------------------------------
\* Classification (findSysMounts, findSysAuths, findSysPolicies).

sysmountslit == <<"/", "sys", "/", "mounts", "/">>
sysauthslit == <<"/", "sys", "/", "auth", "/">>
syspolicylit == <<"/", "sys", "/", "policy", "/">>
\* The tune literal without its leading separator.
tunelitNoSlash == <<"tune", "/">>

tunelit == <<"/", "tune", "/">>
disablelit == <<"/", "disable", "/">>
addlit == <<"/">>

\* Put that keeps the value a key already has.
PutIfAbsent(m, k, v) == [x \in DOMAIN m \cup {k} |-> IF x \in DOMAIN m THEN m[x] ELSE v]

\* m[k] = v on a Go map.
Put(m, k, v) == [x \in DOMAIN m \cup {k} |-> IF x = k THEN v ELSE m[x]]

\* substwo: the directory of the file with BasePath stripped from its front.
SubsTwo(meta) == SliceFrom(SplitDir(meta.FullPath), Len(meta.BasePath))

\* MountLoopBody with a disable directory taken as a request on the mount.
MountLoopBodyDisableCounts(meta, reqs) ==
    LET substwo == SubsTwo(meta)
        substhree == SliceFrom(substwo, Len(sysmountslit))
    IN  IF HasPrefix(substwo, sysmountslit)
        THEN IF HasSuffix(substhree, tunelit)
             THEN LET subsfour == SliceTo(substhree, Len(substhree) - Len(tunelit))
                  IN  [reqs EXCEPT !.upd =
                         Put(@, subsfour,
                             [meta EXCEPT !.VaultEndPoint = sysmountslit,
                                          !.ConfigPath = subsfour,
                                          !.Action = sysMountUpdate])]
             ELSE IF HasSuffix(substhree, disablelit)
             THEN LET subsfour == SliceTo(substhree, Len(substhree) - Len(disablelit))
                  IN  [reqs EXCEPT !.upd =
                         Put(@, subsfour,
                             [meta EXCEPT !.VaultEndPoint = sysmountslit,
                                          !.ConfigPath = subsfour,
                                          !.Action = sysMountUpdate])]
             ELSE IF HasSuffix(substhree, addlit)
             THEN LET subsfour == SliceTo(substhree, Len(substhree) - Len(addlit))
                  IN  [reqs EXCEPT !.add =
                         Put(@, subsfour,
                             [meta EXCEPT !.VaultEndPoint = sysmountslit,
                                          !.ConfigPath = subsfour,
                                          !.Action = sysMountAdd])]
             ELSE reqs
        ELSE reqs

\* MountLoopBody with an add keyed by the last segment of the path only.
MountLoopBodyBaseKey(meta, reqs) ==
    LET substwo == SubsTwo(meta)
        substhree == SliceFrom(substwo, Len(sysmountslit))
    IN  IF HasPrefix(substwo, sysmountslit)
        THEN IF HasSuffix(substhree, tunelit)
             THEN LET subsfour == SliceTo(substhree, Len(substhree) - Len(tunelit))
                  IN  [reqs EXCEPT !.upd =
                         Put(@, subsfour,
                             [meta EXCEPT !.VaultEndPoint = sysmountslit,
                                          !.ConfigPath = subsfour,
                                          !.Action = sysMountUpdate])]
             ELSE IF HasSuffix(substhree, disablelit)
             THEN reqs
             ELSE IF HasSuffix(substhree, addlit)
             THEN LET whole == SliceTo(substhree, Len(substhree) - Len(addlit))
                      subsfour == SliceFrom(whole, LastSlash(whole, Len(whole)))
                  IN  [reqs EXCEPT !.add =
                         Put(@, subsfour,
                             [meta EXCEPT !.VaultEndPoint = sysmountslit,
                                          !.ConfigPath = subsfour,
                                          !.Action = sysMountAdd])]
             ELSE reqs
        ELSE reqs

\* One iteration of findSysMounts' loop; reqs = [add, upd].
MountLoopBody(meta, reqs) ==
    LET substwo == SubsTwo(meta)
        substhree == SliceFrom(substwo, Len(sysmountslit))
    IN  IF HasPrefix(substwo, sysmountslit)
        THEN IF HasSuffix(substhree, tunelit)
             THEN LET subsfour == SliceTo(substhree, Len(substhree) - Len(tunelit))
                  IN  [reqs EXCEPT !.upd =
                         Put(@, subsfour,
                             [meta EXCEPT !.VaultEndPoint = sysmountslit,
                                          !.ConfigPath = subsfour,
                                          !.Action = sysMountUpdate])]
             ELSE IF HasSuffix(substhree, disablelit)
             THEN reqs
             ELSE IF HasSuffix(substhree, addlit)
             THEN LET subsfour == SliceTo(substhree, Len(substhree) - Len(addlit))
                  IN  [reqs EXCEPT !.add =
                         Put(@, subsfour,
                             [meta EXCEPT !.VaultEndPoint = sysmountslit,
                                          !.ConfigPath = subsfour,
                                          !.Action = sysMountAdd])]
             ELSE reqs
        ELSE reqs

\* One iteration of findSysAuths' loop; reqs = [add, upd].
AuthLoopBody(meta, reqs) ==
    LET substwo == SubsTwo(meta)
        substhree == SliceFrom(substwo, Len(sysauthslit))
    IN  IF HasPrefix(substwo, sysauthslit)
        THEN IF HasSuffix(substhree, tunelit)
             THEN reqs
             ELSE IF HasSuffix(substhree, disablelit)
             THEN LET subsfour == SliceTo(substhree, Len(substhree) - Len(disablelit))
                  IN  [reqs EXCEPT !.upd =
                         Put(@, subsfour,
                             [meta EXCEPT !.VaultEndPoint = sysauthslit,
                                          !.ConfigPath = subsfour,
                                          !.Action = sysAuthDelete])]
             ELSE IF HasSuffix(substhree, addlit)
             THEN LET subsfour == SliceTo(substhree, Len(substhree) - Len(addlit))
                  IN  [reqs EXCEPT !.add =
                         Put(@, subsfour,
                             [meta EXCEPT !.VaultEndPoint = sysauthslit,
                                          !.ConfigPath = subsfour,
                                          !.Action = sysAuthAdd])]
             ELSE reqs
        ELSE reqs

\* One iteration of findSysPolicies' loop; reqs = [add, upd].
PolicyLoopBody(meta, reqs) ==
    LET substwo == SubsTwo(meta)
        substhree == SliceFrom(substwo, Len(syspolicylit))
    IN  IF HasPrefix(substwo, syspolicylit)
        THEN IF HasSuffix(substhree, tunelit)
             THEN reqs
             ELSE IF HasSuffix(substhree, disablelit)
             THEN LET subsfour == SliceTo(substhree, Len(substhree) - Len(disablelit))
                  IN  [reqs EXCEPT !.upd =
                         Put(@, subsfour,
                             [meta EXCEPT !.VaultEndPoint = syspolicylit,
                                          !.ConfigPath = subsfour,
                                          !.Action = sysPolicyDelete])]
             ELSE IF HasSuffix(substhree, addlit)
             THEN LET subsfour == SliceTo(substhree, Len(substhree) - Len(addlit))
                  IN  [reqs EXCEPT !.add =
                         Put(@, subsfour,
                             [meta EXCEPT !.VaultEndPoint = syspolicylit,
                                          !.ConfigPath = subsfour,
                                          !.Action = sysPolicyAdd])]
             ELSE reqs
        ELSE reqs

NoReqs == [add |-> EmptyObj, upd |-> EmptyObj]

\* for _, meta := range metaset, from index i on.
RECURSIVE MountLoop(_, _, _)
MountLoop(metaset, i, reqs) ==
    IF i > Len(metaset) THEN reqs
    ELSE MountLoop(metaset, i + 1, MountLoopBody(metaset[i], reqs))

RECURSIVE AuthLoop(_, _, _)
AuthLoop(metaset, i, reqs) ==
    IF i > Len(metaset) THEN reqs
    ELSE AuthLoop(metaset, i + 1, AuthLoopBody(metaset[i], reqs))

RECURSIVE PolicyLoop(_, _, _)
PolicyLoop(metaset, i, reqs) ==
    IF i > Len(metaset) THEN reqs
    ELSE PolicyLoop(metaset, i + 1, PolicyLoopBody(metaset[i], reqs))

\* opts.Actions = append(opts.Actions, kind) when the map is not empty.
\* The kind appended whatever the map holds.
AppendAlways(actions, m, kind) == Append(actions, kind)

AppendIf(actions, m, kind) ==
    IF Cardinality(DOMAIN m) > 0 THEN Append(actions, kind) ELSE actions

\* findSysMounts that leaves the maps empty when opts was classified before.
findSysMountsOnce(opts, metaset) ==
    IF Len(metaset) = 0 THEN opts
    ELSE LET reqs == IF opts.Actions = <<>> THEN MountLoop(metaset, 1, NoReqs) ELSE NoReqs
             a1 == AppendIf(opts.Actions, reqs.add, sysMountAdd)
             a2 == AppendIf(a1, reqs.upd, sysMountUpdate)
         IN  [opts EXCEPT !.SysMountAddReq = reqs.add,
                          !.SysMountUpdReq = reqs.upd,
                          !.Actions = a2]

findSysMounts(opts, metaset) ==
    IF Len(metaset) = 0 THEN opts
    ELSE LET reqs == MountLoop(metaset, 1, NoReqs)
             a1 == AppendIf(opts.Actions, reqs.add, sysMountAdd)
             a2 == AppendIf(a1, reqs.upd, sysMountUpdate)
         IN  [opts EXCEPT !.SysMountAddReq = reqs.add,
                          !.SysMountUpdReq = reqs.upd,
                          !.Actions = a2]

findSysAuths(opts, metaset) ==
    IF Len(metaset) = 0 THEN opts
    ELSE LET reqs == AuthLoop(metaset, 1, NoReqs)
             a1 == AppendIf(opts.Actions, reqs.add, sysAuthAdd)
             a2 == AppendIf(a1, reqs.upd, sysAuthDelete)
         IN  [opts EXCEPT !.SysAuthAddReq = reqs.add,
                          !.SysAuthDelReq = reqs.upd,
                          !.Actions = a2]

findSysPolicies(opts, metaset) ==
    IF Len(metaset) = 0 THEN opts
    ELSE LET reqs == PolicyLoop(metaset, 1, NoReqs)
             a1 == AppendIf(opts.Actions, reqs.add, sysPolicyAdd)
             a2 == AppendIf(a1, reqs.upd, sysPolicyDelete)
         IN  [opts EXCEPT !.SysPolicyAddReq = reqs.add,
                          !.SysPolicyDelReq = reqs.upd,
                          !.Actions = a2]

\* configOptsExp{}: the zero value.
ZeroOpts ==
    [ConfigID |-> "", Token |-> "", SourceDir |-> <<>>, Actions |-> <<>>,
     SysMountAddReq |-> EmptyObj, SysMountUpdReq |-> EmptyObj,
     SysAuthAddReq |-> EmptyObj, SysAuthDelReq |-> EmptyObj,
     SysPolicyAddReq |-> EmptyObj, SysPolicyDelReq |-> EmptyObj]

\* categorize: the files under SourceDir, classified three times over.
categorize(opts, entry, ids) ==
    LET metaset == filesByExt(opts.SourceDir, entry, ids)
    IN  findSysPolicies(findSysAuths(findSysMounts(opts, metaset), metaset), metaset)

hasSysMountRequests(opts) ==
    Cardinality(DOMAIN opts.SysMountAddReq) > 0
        \/ Cardinality(DOMAIN opts.SysMountUpdReq) > 0

hasSysAuthRequests(opts) ==
    Cardinality(DOMAIN opts.SysAuthAddReq) > 0
        \/ Cardinality(DOMAIN opts.SysAuthDelReq) > 0

hasSysPolicyRequests(opts) ==
    Cardinality(DOMAIN opts.SysPolicyAddReq) > 0
        \/ Cardinality(DOMAIN opts.SysPolicyDelReq) > 0

----------------------------------------------------------------------------
\* Request validation and retrieval (ConfigOptions.validate).

\* What the request's url may name: nothing that can be fetched, or content
\* whose data entry is absent, a directory, a regular file or unreadable.
Missing == [entry |-> "missing", files |-> {}, bad |-> {}]

Sources ==
    {Missing}
        \cup { [entry |-> e, files |-> {}, bad |-> {}] : e \in {"absent", "file", "staterr"} }
        \cup UNION { { [entry |-> "dir", files |-> f, bad |-> b] : b \in BadFiles(f) } :
                      f \in BundleFiles }

\* StructErrors with the fields visited Token first.
StructErrorsTokenFirst(o) ==
    (IF o.Token = "" THEN <<ErrTokenRequired>> ELSE <<>>)
        \o (IF o.URL = "" THEN <<ErrURLRequired>> ELSE <<>>)

\* validate.Struct(opts): the failing fields in the order of the struct's
\* fields, URL before Token, each with tag `required`.
StructErrors(o) ==
    (IF o.URL = "" THEN <<ErrURLRequired>> ELSE <<>>)
        \o (IF o.Token = "" THEN <<ErrTokenRequired>> ELSE <<>>)

\* The check of the staging root (policy_config_dir).
destErr(dir) ==
    IF dir \in {"unset", "empty"} THEN ErrDestUnset
    ELSE IF dir = "missing" THEN ErrDestDoesNotExist
    ELSE IF dir = "statfail" THEN ErrDestStatFail
    ELSE NoErr

\* The error validate makes of validate.Struct's result: the first field
\* error, or none.
structErr(o) == IF StructErrors(o) # <<>> THEN StructErrors(o)[1] ELSE NoErr

\* checkActions with an empty Actions list let through.
checkActionsAllowsNone(cfgState) == NoErr

\* no valid requests found, that's a problem.
checkActions(cfgState) == IF Len(cfgState.Actions) = 0 THEN ErrSrcReqEmpty ELSE NoErr

\* The stat of srcdata.
layoutErr(entry) ==
    IF entry = "absent" THEN ErrSrcMalformed
    ELSE IF entry = "staterr" THEN ErrStat
    ELSE NoErr

\* validate from nuid.Next() on: retrieval, the layout check and
\* categorization.
retrieve(o, requestid, src) ==
    IF src.entry = "missing"
    THEN [opts |-> ZeroOpts, err |-> ErrGetter, step |-> "get"]
    ELSE IF layoutErr(src.entry) # NoErr
    THEN [opts |-> ZeroOpts, err |-> layoutErr(src.entry), step |-> "layout"]
    ELSE LET cfgState ==
                 categorize([ZeroOpts EXCEPT !.ConfigID = ToString(requestid),
                                             !.Token = o.Token,
                                             !.SourceDir = SrcData(requestid)],
                            src.entry, src.files)
         IN  [opts |-> cfgState, err |-> checkActions(cfgState), step |-> "categorize"]

\* validate with the request fields checked before the staging root.
validateStructFirst(dir, o, requestid, src) ==
    IF structErr(o) # NoErr
    THEN [opts |-> ZeroOpts, err |-> structErr(o), step |-> "struct"]
    ELSE IF destErr(dir) # NoErr
    THEN [opts |-> ZeroOpts, err |-> destErr(dir), step |-> "dest"]
    ELSE retrieve(o, requestid, src)

\* validate: the expanded options, the error, and the last step reached:
\* "dest" (staging root), "struct" (field validation), "get" (retrieval),
\* "layout" (stat of data), "categorize".
validate(dir, o, requestid, src) ==
    IF destErr(dir) # NoErr
    THEN [opts |-> ZeroOpts, err |-> destErr(dir), step |-> "dest"]
    ELSE IF structErr(o) # NoErr
    THEN [opts |-> ZeroOpts, err |-> structErr(o), step |-> "struct"]
    ELSE retrieve(o, requestid, src)

----------------------------------------------------------------------------
\* Results.

\* A nil map or slice, and a non-nil one.
Unset == [set |-> FALSE, val |-> <<>>]
Set(v) == [set |-> TRUE, val |-> v]

\* ConfigState{}
ZeroState == [ConfigID |-> "", Mounts |-> Unset, Auths |-> Unset, Policies |-> Unset]

----------------------------------------------------------------------------
\* Vault, as the calls of the engine see it.

BuiltinMounts ==
    [k \in {<<"secret", "/">>} |->
        [Type |-> "generic", Description |-> "generic secret storage",
         Config |-> [DefaultLeaseTTL |-> 0, MaxLeaseTTL |-> 0]]]

BuiltinAuths ==
    [k \in {<<"token", "/">>} |->
        [Type |-> "token", Description |-> "token based credentials",
         Config |-> [DefaultLeaseTTL |-> 0, MaxLeaseTTL |-> 0]]]

BuiltinPolicies == [k \in {<<"root">>} |-> ""]

\* Vault's reading of a lease duration, in seconds.
ParseTTL(s) ==
    CASE s = "" -> 0
      [] s = "7h" -> 25200
      [] s = "8h" -> 28800
      [] s = "21h" -> 75600
      [] s = "24h" -> 86400

\* Vault keys mounts and auth backends by their path with a trailing "/".
VaultKey(path) == Append(path, "/")

Remove(m, k) == [x \in DOMAIN m \ {k} |-> m[x]]

\* A call that Vault accepts may still fail; one it rejects always fails.
Outcomes(accepted) == IF accepted THEN {TRUE, FALSE} ELSE {FALSE}

----------------------------------------------------------------------------
\* Deserialization of a well-formed file's content into the input shapes.

Str(obj, k) == IF k \in DOMAIN obj THEN obj[k] ELSE ""

\* json.Unmarshal into MountConfigInput / AuthConfigInput
deserializeMountConfigInput(obj) ==
    [DefaultLeaseTTL |-> Str(obj, "default_lease_ttl"),
     MaxLeaseTTL |-> Str(obj, "max_lease_ttl")]

\* json.Unmarshal into MountInput
deserializeMountInput(obj) ==
    [Type |-> Str(obj, "type"),
     Description |-> Str(obj, "description"),
     Config |-> deserializeMountConfigInput(
                    IF "config" \in DOMAIN obj THEN obj.config ELSE EmptyObj)]

\* json.Unmarshal into AuthInput
deserializeAuthInput(obj) ==
    [Type |-> Str(obj, "type"),
     Description |-> Str(obj, "description"),
     Config |-> deserializeMountConfigInput(
                    IF "config" \in DOMAIN obj THEN obj.config ELSE EmptyObj)]

\* json.Unmarshal into PolicyInput
deserializePolicyInput(obj) == [Rules |-> Str(obj, "rules")]

----------------------------------------------------------------------------
\* The Vault client factory: config.Config(), the process environment,
\* DefaultTLSConfig and NewVaultClient.

\* a key nobody supplied, and the error of DefaultTLSConfig
NotGiven == "<unset>"
ErrParseSkipVerify == "Could not parse VAULT_SKIP_VERIFY"
VaultAddrDefault == "https://127.0.0.1:8200"
\* vaultapi.DefaultConfig().Address, when the factory assigns none
DefaultConfigAddress == "vaultapi.DefaultConfig().Address"
\* a client that was not built
NilClient == [Address |-> "", CACert |-> "", CAPath |-> "", ClientCert |-> "",
              ClientKey |-> "", Insecure |-> FALSE, built |-> FALSE]

\* viperConfig: the keys it gives a default with v.SetDefault, with the bool
\* false written as the string cast.ToBool reads it from.
Defaults ==
    [vault_address |-> VaultAddrDefault, vault_ca_cert |-> "", vault_ca_path |-> "",
     vault_skip_verify |-> "false"]

\* A settings record ve is [given, env]: given[k] is what a flag, an ARMOR_
\* environment variable or the configuration file supplies for key k (NotGiven when
\* none does), env[n] is os.Getenv(n).
\* cfg.IsSet(k): viper finds a value in any layer, the defaults included
IsSet(ve, k) == ve.given[k] # NotGiven \/ k \in DOMAIN Defaults
\* cfg.GetString(k): the highest layer that has the key; "" for no value
GetString(ve, k) ==
    IF ve.given[k] # NotGiven THEN ve.given[k]
    ELSE IF k \in DOMAIN Defaults THEN Defaults[k] ELSE ""
\* strconv.ParseBool
ParseBool(s) ==
    IF s \in {"1", "t", "T", "TRUE", "true", "True"} THEN [ok |-> TRUE, val |-> TRUE]
    ELSE IF s \in {"0", "f", "F", "FALSE", "false", "False"}
         THEN [ok |-> TRUE, val |-> FALSE]
         ELSE [ok |-> FALSE, val |-> FALSE]
\* cfg.GetBool(k): cast.ToBool, which drops the error of strconv.ParseBool
GetBool(ve, k) == ParseBool(GetString(ve, k)).val
Getenv(ve, n) == ve.env[n]

\* The setting read from the store first and from the environment next.
LayeredEnvFirst(ve, k, n, zero) ==
    IF Getenv(ve, n) # "" THEN Getenv(ve, n)
    ELSE IF IsSet(ve, k) /\ GetString(ve, k) # "" THEN GetString(ve, k)
         ELSE zero

\* if cfg.IsSet(k) && cfg.GetString(k) != "" {..} else if v := os.Getenv(n);
\* v != "" {..}: the value the field ends with, zero when neither branch runs
Layered(ve, k, n, zero) ==
    IF IsSet(ve, k) /\ GetString(ve, k) # "" THEN GetString(ve, k)
    ELSE IF Getenv(ve, n) # "" THEN Getenv(ve, n)
         ELSE zero

\* DefaultTLSConfig: [err, tls]
DefaultTLSConfig(ve) ==
    LET strings ==
            [CACert |-> Layered(ve, "vault_ca_cert", "VAULT_CACERT", ""),
             CAPath |-> Layered(ve, "vault_ca_path", "VAULT_CAPATH", ""),
             ClientCert |-> Layered(ve, "vault_client_cert", "VAULT_CLIENT_CERT", ""),
             ClientKey |-> Layered(ve, "vault_client_key", "VAULT_CLIENT_KEY", "")]
        v == Getenv(ve, "VAULT_SKIP_VERIFY")
        Tls(insecure) ==
            [CACert |-> strings.CACert, CAPath |-> strings.CAPath,
             ClientCert |-> strings.ClientCert, ClientKey |-> strings.ClientKey,
             Insecure |-> insecure]
    IN  IF IsSet(ve, "vault_skip_verify")
        THEN [err |-> NoErr, tls |-> Tls(GetBool(ve, "vault_skip_verify"))]
        ELSE IF v # ""
             THEN IF ParseBool(v).ok
                  THEN [err |-> NoErr, tls |-> Tls(ParseBool(v).val)]
                  ELSE [err |-> ErrParseSkipVerify, tls |-> Tls(FALSE)]
             ELSE [err |-> NoErr, tls |-> Tls(FALSE)]

\* vaultapi.NewClient: url.Parse of the address fails on a bad escape
ParsesAsURL(a) == a # "%zz"

\* NewVaultClient(): [err, client]
VaultClientOf(ve) ==
    LET t == DefaultTLSConfig(ve)
        address == Layered(ve, "vault_address", "VAULT_ADDRESS", DefaultConfigAddress)
    IN  IF t.err # NoErr THEN [err |-> t.err, client |-> NilClient]
        ELSE IF ~ParsesAsURL(address) THEN [err |-> ErrClient, client |-> NilClient]
        ELSE [err |-> NoErr,
              client |-> [Address |-> address, CACert |-> t.tls.CACert,
                          CAPath |-> t.tls.CAPath, ClientCert |-> t.tls.ClientCert,
                          ClientKey |-> t.tls.ClientKey, Insecure |-> t.tls.Insecure,
                          built |-> TRUE]]

\* nothing supplied and nothing in the environment
NoGiven ==
    [vault_address |-> NotGiven, vault_ca_cert |-> NotGiven, vault_ca_path |-> NotGiven,
     vault_client_cert |-> NotGiven, vault_client_key |-> NotGiven,
     vault_skip_verify |-> NotGiven]
NoEnv ==
    [VAULT_ADDRESS |-> "", VAULT_CACERT |-> "", VAULT_CAPATH |-> "",
     VAULT_CLIENT_CERT |-> "", VAULT_CLIENT_KEY |-> "", VAULT_SKIP_VERIFY |-> ""]
\* the settings of a plain start, and one whose --vault-address does not parse
PlainSettings == [given |-> NoGiven, env |-> NoEnv]
BadAddressSettings ==
    [given |-> [NoGiven EXCEPT !.vault_address = "%zz"], env |-> NoEnv]

----------------------------------------------------------------------------
VARIABLES
    cfgDir,      \* policy_config_dir: "unset", "empty", "missing", "statfail", "ok"
    vaultEnv,    \* the settings the client factory reads: [given, env]
    req,         \* the ConfigOptions of the Configure call: [URL, Token]
    pc,          \* where the Configure call stands
    opts,        \* cfgexpanded, the configOptsExp of the call
    iter,        \* the keys the running range loop has not visited yet
    state,       \* the ConfigState that handleRequests is filling
    ret,         \* what Configure returned: [state, err]
    log,         \* file reads and Vault calls, in the order they were made
    vMounts,     \* Vault: mounts by key
    vAuths,      \* Vault: auth backends by key
    vPolicies,   \* Vault: policies by name
    nextID,      \* the request id nuid.Next() hands out next
    fetches,     \* the getter.Get calls made: [dst, url]
    staged,      \* the staging root: fetched content by request id
    clients,     \* the number of Vault clients built
    clientToken, \* the token set on the client
    client,      \* the client NewVaultClient returned to the call
    validateVar, \* the package variable `validate`: the validator it points to
    self,        \* the call that is running: 1 or 2
    other,       \* the variables of the call that is not running
    vSys,        \* Vault: initialized, sealed, t, n and the unseal keys entered
    registry,    \* the token holder table: the items PutItem has written
    received,    \* what the transport client got back from its request
    healthzStatus,   \* package variable healthzStatus
    readinessStatus, \* package variable readinessStatus
    handlers     \* the health and readiness requests in flight, by request

\* what the Configure path never touches
svcVars == <<vSys, registry, received, healthzStatus, readinessStatus, handlers>>

vars ==
    <<cfgDir, svcVars, vaultEnv, req, pc, opts, iter, state, ret, log, vMounts, vAuths,
      vPolicies, nextID, fetches, staged, clients, clientToken, client,
      validateVar, self, other>>

vaultVars == <<vMounts, vAuths, vPolicies>>

\* net/http
StatusOK == 200
StatusServiceUnavailable == 503

\* Vault initialized with n key shares of which t unseal it, sealed or not;
\* entered holds the key shares submitted since the last reset
VaultCore(initialized, sealed, t, n) ==
    [initialized |-> initialized, sealed |-> sealed, t |-> t, n |-> n, entered |-> {}]
\* nothing received by a transport client
NoneReceived == [op |-> "none"]

\* The rest of the process while a Configure call is all that runs: Vault is
\* initialized and unsealed, the registry is empty, the health variables are
\* as declared and no health request is in flight.
SvcIdle ==
    /\ vSys = VaultCore(TRUE, FALSE, 2, 3)
    /\ registry = <<>>
    /\ received = NoneReceived
    /\ healthzStatus = StatusOK
    /\ readinessStatus = StatusOK
    /\ handlers = <<>>

NoReq == [URL |-> "", Token |-> ""]
NoRet == [state |-> ZeroState, err |-> NoErr]

\* var validate *validator.Validate before any call, and validator.New() as
\* made by call `by`
NilValidator == [by |-> 0]
NewValidator(by) == [by |-> by]

\* the variables of a call that has not started
IdleCall ==
    [pc |-> "idle", req |-> NoReq, opts |-> ZeroOpts, iter |-> {}, state |-> ZeroState,
     ret |-> NoRet, log |-> <<>>, clients |-> 0, clientToken |-> "",
     client |-> NilClient]

PreMount ==
    [Type |-> "postgresql", Description |-> "",
     Config |-> [DefaultLeaseTTL |-> 25200, MaxLeaseTTL |-> 75600]]

PreAuth ==
    [Type |-> "userpass", Description |-> "users",
     Config |-> [DefaultLeaseTTL |-> 0, MaxLeaseTTL |-> 0]]

Init ==
    \* viperConfig gives policy_config_dir a default, so the key is never unset
    /\ cfgDir \in {"empty", "missing", "statfail", "ok"}
    /\ vaultEnv \in {PlainSettings, BadAddressSettings}
    /\ req = NoReq
    /\ pc = "idle"
    /\ opts = ZeroOpts
    /\ iter = {}
    /\ state = ZeroState
    /\ ret = NoRet
    /\ log = <<>>
    /\ \E configured \in BOOLEAN :
          /\ vMounts = IF configured THEN Put(BuiltinMounts, <<"a", "/">>, PreMount)
                       ELSE BuiltinMounts
          /\ vAuths = IF configured THEN Put(BuiltinAuths, <<"a", "/">>, PreAuth)
                      ELSE BuiltinAuths
          /\ vPolicies = IF configured THEN Put(BuiltinPolicies, <<"a">>, "path x {}")
                         ELSE BuiltinPolicies
    /\ nextID = 1
    /\ fetches = <<>>
    /\ staged = EmptyObj
    /\ clients = 0
    /\ clientToken = ""
    /\ client = NilClient
    /\ validateVar = NilValidator
    /\ self = 1
    /\ other = IdleCall
    /\ SvcIdle

----------------------------------------------------------------------------
\* The control flow of handleRequests and of the three handleSys* functions:
\* the step that follows, given the request maps.

Len0(m) == Cardinality(DOMAIN m) = 0

\* EnterPolicies with the listing made whether or not the namespace changed.
EnterPoliciesAlwaysLists(o) ==
    IF hasSysPolicyRequests(o)
    THEN IF ~Len0(o.SysPolicyAddReq) THEN "addSysPolicies"
         ELSE IF ~Len0(o.SysPolicyDelReq) THEN "deleteSysPolicies"
         ELSE "listPolicies"
    ELSE "listPolicies"

\* the third block of handleRequests, then its return
EnterPolicies(o) ==
    IF hasSysPolicyRequests(o)
    THEN IF ~Len0(o.SysPolicyAddReq) THEN "addSysPolicies"
         ELSE IF ~Len0(o.SysPolicyDelReq) THEN "deleteSysPolicies"
         ELSE "return"
    ELSE "return"

\* EnterAuths with the listing made whether or not the namespace changed.
EnterAuthsAlwaysLists(o) ==
    IF hasSysAuthRequests(o)
    THEN IF ~Len0(o.SysAuthAddReq) THEN "addSysAuths"
         ELSE IF ~Len0(o.SysAuthDelReq) THEN "deleteSysAuths"
         ELSE "listAuths"
    ELSE "listAuths"

\* the second block of handleRequests
EnterAuths(o) ==
    IF hasSysAuthRequests(o)
    THEN IF ~Len0(o.SysAuthAddReq) THEN "addSysAuths"
         ELSE IF ~Len0(o.SysAuthDelReq) THEN "deleteSysAuths"
         ELSE EnterPolicies(o)
    ELSE EnterPolicies(o)

\* the first block of handleRequests
\* tuning ahead of adding
EnterMountsTuneFirst(o) ==
    IF hasSysMountRequests(o)
    THEN IF ~Len0(o.SysMountUpdReq) THEN "tuneSysMounts"
         ELSE IF ~Len0(o.SysMountAddReq) THEN "addSysMounts"
         ELSE EnterAuths(o)
    ELSE EnterAuths(o)

EnterMounts(o) ==
    IF hasSysMountRequests(o)
    THEN IF ~Len0(o.SysMountAddReq) THEN "addSysMounts"
         ELSE IF ~Len0(o.SysMountUpdReq) THEN "tuneSysMounts"
         ELSE EnterAuths(o)
    ELSE EnterAuths(o)

\* after addSysMounts returned nil: madechgs is true
AfterAddMounts(o) ==
    IF ~Len0(o.SysMountUpdReq) THEN "tuneSysMounts" ELSE "listMounts"

\* after addSysAuths returned nil
AfterAddAuths(o) ==
    IF ~Len0(o.SysAuthDelReq) THEN "deleteSysAuths" ELSE "listAuths"

\* after addSysPolicies returned nil
AfterAddPolicies(o) ==
    IF ~Len0(o.SysPolicyDelReq) THEN "deleteSysPolicies" ELSE "listPolicies"

\* The keys a range loop starts with.
IterOf(p, o) ==
    CASE p = "addSysMounts" -> DOMAIN o.SysMountAddReq
      [] p = "tuneSysMounts" -> DOMAIN o.SysMountUpdReq
      [] p = "addSysAuths" -> DOMAIN o.SysAuthAddReq
      [] p = "deleteSysAuths" -> DOMAIN o.SysAuthDelReq
      [] p = "addSysPolicies" -> DOMAIN o.SysPolicyAddReq
      [] p = "deleteSysPolicies" -> DOMAIN o.SysPolicyDelReq
      [] OTHER -> {}

\* What Configure hands back when handleRequests fails: `return state, err`.
HandleError(st, e) == [state |-> st, err |-> e]

\* ioutil.ReadFile and json.Unmarshal of a staged file.
ReadFile(path) ==
    LET content == staged[opts.ConfigID]
        i == CHOOSE f \in content.files :
                 opts.SourceDir \o FileUniverse[f].dir \o FileUniverse[f].name = path
    IN  [ok |-> i \notin content.bad, json |-> FileUniverse[i].json]

ReadEvent(path, ok) == [op |-> "read-file", path |-> path, arg |-> EmptyObj, ok |-> ok]
CallEvent(op, path, arg, ok) == [op |-> op, path |-> path, arg |-> arg, ok |-> ok]

----------------------------------------------------------------------------
\* proxyService.Configure, up to the Vault client.

Configure ==
    /\ pc = "idle"
    /\ \E url \in {"", "file:///bundle"}, token \in {"", "s.token"}, src \in Sources :
          LET o == [URL |-> url, Token |-> token]
              v == validate(cfgDir, o, nextID, src)
              got == v.step \in {"layout", "categorize"}
          IN  /\ req' = o
              /\ nextID' = IF v.step \in {"dest", "struct"} THEN nextID ELSE nextID + 1
              /\ fetches' = IF v.step \in {"dest", "struct"} THEN fetches
                            ELSE Append(fetches, [dst |-> SrcDest(nextID), url |-> url])
              /\ staged' = IF got THEN Put(staged, ToString(nextID), src) ELSE staged
              /\ validateVar' = IF v.step = "dest" THEN validateVar ELSE NewValidator(self)
              /\ IF v.err # NoErr
                 THEN /\ pc' = "done"
                      /\ ret' = [state |-> ZeroState, err |-> v.err]
                      /\ opts' = opts
                 ELSE /\ pc' = "NewVaultClient"
                      /\ ret' = ret
                      /\ opts' = v.opts
    /\ UNCHANGED <<cfgDir, svcVars, vaultEnv, iter, state, log, vaultVars, clients, clientToken,
                   client, self, other>>

\* NewVaultClient, client.SetToken and the entry of handleRequests.
NewVaultClient ==
    /\ pc = "NewVaultClient"
    /\ clients' = clients + 1
    /\ IF VaultClientOf(vaultEnv).err = NoErr
       THEN /\ client' = VaultClientOf(vaultEnv).client
            /\ clientToken' = opts.Token
            /\ state' = [ZeroState EXCEPT !.ConfigID = opts.ConfigID]
            /\ pc' = EnterMounts(opts)
            /\ iter' = IterOf(EnterMounts(opts), opts)
            /\ ret' = ret
       ELSE /\ pc' = "done"
            /\ ret' = [state |-> ZeroState, err |-> VaultClientOf(vaultEnv).err]
            /\ UNCHANGED <<client, clientToken, state, iter>>
    /\ UNCHANGED <<cfgDir, svcVars, vaultEnv, req, opts, log, vaultVars, nextID, fetches, staged,
                   validateVar, self, other>>

----------------------------------------------------------------------------
\* The steps of a range loop or listing.

\* Fail with the error noted and the loop carried on.
FailAndGoOn(e, newlog) ==
    /\ log' = newlog
    /\ UNCHANGED <<pc, ret, state, iter>>

\* the function returns the error and so does every caller
Fail(e, newlog) ==
    /\ pc' = "done"
    /\ ret' = HandleError(state, e)
    /\ log' = newlog
    /\ UNCHANGED <<state, iter>>

\* the loop goes on with the keys left, or the function returns nil
LoopNext(rest, newlog, after) ==
    /\ log' = newlog
    /\ iter' = IF rest = {} THEN IterOf(after, opts) ELSE rest
    /\ pc' = IF rest = {} THEN after ELSE pc
    /\ UNCHANGED <<state, ret>>

frame ==
    <<cfgDir, svcVars, vaultEnv, req, opts, nextID, fetches, staged, clients, clientToken,
      client, validateVar, self, other>>

\* vaultapi.MountInput built from the file's MountInput
MountIn(in) ==
    [Type |-> in.Type, Description |-> in.Description,
     Config |-> [DefaultLeaseTTL |-> in.Config.DefaultLeaseTTL,
                 MaxLeaseTTL |-> in.Config.MaxLeaseTTL]]

\* MountCfgIn with the two lease values changing places.
MountCfgInSwapped(in) ==
    [DefaultLeaseTTL |-> in.MaxLeaseTTL, MaxLeaseTTL |-> in.DefaultLeaseTTL]

\* vaultapi.MountConfigInput built from the file's MountConfigInput
MountCfgIn(in) ==
    [DefaultLeaseTTL |-> in.DefaultLeaseTTL, MaxLeaseTTL |-> in.MaxLeaseTTL]

\* Vault's record of a mount enabled with `in`.
Mounted(in) ==
    [Type |-> in.Type, Description |-> in.Description,
     Config |-> [DefaultLeaseTTL |-> ParseTTL(in.Config.DefaultLeaseTTL),
                 MaxLeaseTTL |-> ParseTTL(in.Config.MaxLeaseTTL)]]

\* Vault's record of a mount tuned with `cfg`: a field left empty is kept.
Tuned(m, cfg) ==
    [m EXCEPT !.Config =
        [DefaultLeaseTTL |-> IF cfg.DefaultLeaseTTL = "" THEN @.DefaultLeaseTTL
                             ELSE ParseTTL(cfg.DefaultLeaseTTL),
         MaxLeaseTTL |-> IF cfg.MaxLeaseTTL = "" THEN @.MaxLeaseTTL
                         ELSE ParseTTL(cfg.MaxLeaseTTL)]]

\* Vault's record of an auth backend enabled with a type and a description.
Enabled(type, description) ==
    [Type |-> type, Description |-> description,
     Config |-> [DefaultLeaseTTL |-> 0, MaxLeaseTTL |-> 0]]

\* for path, meta := range opts.SysMountAddReq { ... client.Sys().Mount }
addSysMounts ==
    /\ pc = "addSysMounts"
    /\ IF Len0(opts.SysMountAddReq)
       THEN Fail(ErrStateSysMountAddReqEmpty, log) /\ UNCHANGED vaultVars
       ELSE \E path \in iter :
              LET meta == opts.SysMountAddReq[path]
                  raw == ReadFile(meta.FullPath)
                  rd == ReadEvent(meta.FullPath, raw.ok)
              IN  IF ~raw.ok
                  THEN Fail(ErrJSON, Append(log, rd)) /\ UNCHANGED vaultVars
                  ELSE LET mountIn == MountIn(deserializeMountInput(raw.json))
                       IN  \E ok \in Outcomes(VaultKey(path) \notin DOMAIN vMounts) :
                             LET newlog == log \o <<rd, CallEvent("mount", path, mountIn, ok)>>
                             IN  IF ok
                                 THEN /\ vMounts' = Put(vMounts, VaultKey(path), Mounted(mountIn))
                                      /\ UNCHANGED <<vAuths, vPolicies>>
                                      /\ LoopNext(iter \ {path}, newlog, AfterAddMounts(opts))
                                 ELSE Fail(ErrVault, newlog) /\ UNCHANGED vaultVars
    /\ UNCHANGED frame

\* for path, meta := range opts.SysMountUpdReq { ... client.Sys().TuneMount }
tuneSysMounts ==
    /\ pc = "tuneSysMounts"
    /\ IF Len0(opts.SysMountUpdReq)
       THEN Fail(ErrStateSysMountUpdReqEmpty, log) /\ UNCHANGED vaultVars
       ELSE \E path \in iter :
              LET meta == opts.SysMountUpdReq[path]
                  raw == ReadFile(meta.FullPath)
                  rd == ReadEvent(meta.FullPath, raw.ok)
              IN  IF ~raw.ok
                  THEN Fail(ErrJSON, Append(log, rd)) /\ UNCHANGED vaultVars
                  ELSE LET cfg == MountCfgIn(deserializeMountConfigInput(raw.json))
                       IN  \E ok \in Outcomes(VaultKey(path) \in DOMAIN vMounts) :
                             LET newlog == log \o <<rd, CallEvent("tune-mount", path, cfg, ok)>>
                             IN  IF ok
                                 THEN /\ vMounts' = [vMounts EXCEPT ![VaultKey(path)] = Tuned(@, cfg)]
                                      /\ UNCHANGED <<vAuths, vPolicies>>
                                      /\ LoopNext(iter \ {path}, newlog, "listMounts")
                                 ELSE Fail(ErrVault, newlog) /\ UNCHANGED vaultVars
    /\ UNCHANGED frame

\* MountsOut rebuilt from the request maps instead of Vault's answer.
MountsOutFromRequests(result) ==
    LET asked == { VaultKey(path) :
                     path \in DOMAIN opts.SysMountAddReq \cup DOMAIN opts.SysMountUpdReq }
    IN  [k \in DOMAIN result \cap asked |->
            [Path |-> "", Type |-> result[k].Type, Description |-> result[k].Description,
             Config |-> [DefaultLeaseTTL |-> result[k].Config.DefaultLeaseTTL,
                         MaxLeaseTTL |-> result[k].Config.MaxLeaseTTL]]]

\* listMounts' copy of what client.Sys().ListMounts() returned
MountsOut(result) ==
    [k \in DOMAIN result |->
        [Path |-> "", Type |-> result[k].Type, Description |-> result[k].Description,
         Config |-> [DefaultLeaseTTL |-> result[k].Config.DefaultLeaseTTL,
                     MaxLeaseTTL |-> result[k].Config.MaxLeaseTTL]]]

\* mounts, err = listMounts(client); state.Mounts = mounts
listMounts ==
    /\ pc = "listMounts"
    /\ \E ok \in Outcomes(TRUE) :
          LET newlog == Append(log, CallEvent("list-mounts", <<>>, EmptyObj, ok))
          IN  IF ok
              THEN /\ state' = [state EXCEPT !.Mounts = Set(MountsOut(vMounts))]
                   /\ log' = newlog
                   /\ pc' = EnterAuths(opts)
                   /\ iter' = IterOf(EnterAuths(opts), opts)
                   /\ ret' = ret
              ELSE Fail(ErrVault, newlog)
    /\ UNCHANGED vaultVars
    /\ UNCHANGED frame

\* for path, meta := range opts.SysAuthAddReq { ... client.Sys().EnableAuth }
addSysAuths ==
    /\ pc = "addSysAuths"
    /\ IF Len0(opts.SysAuthAddReq)
       THEN Fail(ErrStateSysAuthAddReqEmpty, log) /\ UNCHANGED vaultVars
       ELSE \E path \in iter :
              LET meta == opts.SysAuthAddReq[path]
                  raw == ReadFile(meta.FullPath)
                  rd == ReadEvent(meta.FullPath, raw.ok)
              IN  IF ~raw.ok
                  THEN Fail(ErrJSON, Append(log, rd)) /\ UNCHANGED vaultVars
                  ELSE LET authInput == deserializeAuthInput(raw.json)
                           arg == [Type |-> authInput.Type,
                                   Description |-> authInput.Description]
                       IN  \E ok \in Outcomes(VaultKey(path) \notin DOMAIN vAuths) :
                             LET newlog == log \o <<rd, CallEvent("auth-enable", path, arg, ok)>>
                             IN  IF ok
                                 THEN /\ vAuths' = Put(vAuths, VaultKey(path),
                                                       Enabled(arg.Type, arg.Description))
                                      /\ UNCHANGED <<vMounts, vPolicies>>
                                      /\ LoopNext(iter \ {path}, newlog, AfterAddAuths(opts))
                                 ELSE Fail(ErrVault, newlog) /\ UNCHANGED vaultVars
    /\ UNCHANGED frame

\* deleteSysAuths with the file of each entry deserialized before the call.
deleteSysAuthsReadsFile ==
    /\ pc = "deleteSysAuths"
    /\ IF Len0(opts.SysAuthDelReq)
       THEN Fail(ErrStateSysAuthDelReqEmpty, log) /\ UNCHANGED vaultVars
       ELSE \E path \in iter :
              LET meta == opts.SysAuthDelReq[path]
                  raw == ReadFile(meta.FullPath)
                  rd == ReadEvent(meta.FullPath, raw.ok)
              IN  IF ~raw.ok
                  THEN Fail(ErrJSON, Append(log, rd)) /\ UNCHANGED vaultVars
                  ELSE \E ok \in Outcomes(TRUE) :
                         LET newlog == log \o <<rd, CallEvent("auth-disable", path, EmptyObj, ok)>>
                         IN  IF ok
                             THEN /\ vAuths' = Remove(vAuths, VaultKey(path))
                                  /\ UNCHANGED <<vMounts, vPolicies>>
                                  /\ LoopNext(iter \ {path}, newlog, "listAuths")
                             ELSE Fail(ErrVault, newlog) /\ UNCHANGED vaultVars
    /\ UNCHANGED frame

\* for path := range opts.SysAuthDelReq { client.Sys().DisableAuth(path) }
deleteSysAuths ==
    /\ pc = "deleteSysAuths"
    /\ IF Len0(opts.SysAuthDelReq)
       THEN Fail(ErrStateSysAuthDelReqEmpty, log) /\ UNCHANGED vaultVars
       ELSE \E path \in iter, ok \in Outcomes(TRUE) :
              LET newlog == Append(log, CallEvent("auth-disable", path, EmptyObj, ok))
              IN  IF ok
                  THEN /\ vAuths' = Remove(vAuths, VaultKey(path))
                       /\ UNCHANGED <<vMounts, vPolicies>>
                       /\ LoopNext(iter \ {path}, newlog, "listAuths")
                  ELSE Fail(ErrVault, newlog) /\ UNCHANGED vaultVars
    /\ UNCHANGED frame

\* listAuths' copy of what client.Sys().ListAuth() returned
AuthsOut(result) ==
    [k \in DOMAIN result |->
        [Path |-> "", Type |-> result[k].Type, Description |-> result[k].Description,
         Config |-> [DefaultLeaseTTL |-> result[k].Config.DefaultLeaseTTL,
                     MaxLeaseTTL |-> result[k].Config.MaxLeaseTTL]]]

\* auths, err = listAuths(client); state.Auths = auths
listAuths ==
    /\ pc = "listAuths"
    /\ \E ok \in Outcomes(TRUE) :
          LET newlog == Append(log, CallEvent("list-auth", <<>>, EmptyObj, ok))
          IN  IF ok
              THEN /\ state' = [state EXCEPT !.Auths = Set(AuthsOut(vAuths))]
                   /\ log' = newlog
                   /\ pc' = EnterPolicies(opts)
                   /\ iter' = IterOf(EnterPolicies(opts), opts)
                   /\ ret' = ret
              ELSE Fail(ErrVault, newlog)
    /\ UNCHANGED vaultVars
    /\ UNCHANGED frame

\* for path, meta := range opts.SysPolicyAddReq { ... client.Sys().PutPolicy }
addSysPolicies ==
    /\ pc = "addSysPolicies"
    /\ IF Len0(opts.SysPolicyAddReq)
       THEN Fail(ErrStateSysPolicyAddReqEmpty, log) /\ UNCHANGED vaultVars
       ELSE \E path \in iter :
              LET meta == opts.SysPolicyAddReq[path]
                  raw == ReadFile(meta.FullPath)
                  rd == ReadEvent(meta.FullPath, raw.ok)
              IN  IF ~raw.ok
                  THEN Fail(ErrJSON, Append(log, rd)) /\ UNCHANGED vaultVars
                  ELSE LET policyInput == deserializePolicyInput(raw.json)
                       IN  \E ok \in Outcomes(TRUE) :
                             LET newlog == log \o <<rd, CallEvent("policy-put", path, policyInput, ok)>>
                             IN  IF ok
                                 THEN /\ vPolicies' = Put(vPolicies, path, policyInput.Rules)
                                      /\ UNCHANGED <<vMounts, vAuths>>
                                      /\ LoopNext(iter \ {path}, newlog, AfterAddPolicies(opts))
                                 ELSE Fail(ErrVault, newlog) /\ UNCHANGED vaultVars
    /\ UNCHANGED frame

\* for path := range opts.SysPolicyDelReq { client.Sys().DeletePolicy(path) }
deleteSysPolicies ==
    /\ pc = "deleteSysPolicies"
    /\ IF Len0(opts.SysPolicyDelReq)
       THEN Fail(ErrStateSysPolicyDelReqEmpty, log) /\ UNCHANGED vaultVars
       ELSE \E path \in iter, ok \in Outcomes(TRUE) :
              LET newlog == Append(log, CallEvent("policy-delete", path, EmptyObj, ok))
              IN  IF ok
                  THEN /\ vPolicies' = Remove(vPolicies, path)
                       /\ UNCHANGED <<vMounts, vAuths>>
                       /\ LoopNext(iter \ {path}, newlog, "listPolicies")
                  ELSE Fail(ErrVault, newlog) /\ UNCHANGED vaultVars
    /\ UNCHANGED frame

\* The []string that client.Sys().ListPolicies() builds by appending the
\* names Vault answered with: it stays nil when there are none.
PoliciesOut(result) == IF DOMAIN result = {} THEN Unset ELSE Set(DOMAIN result)

\* policies, err = listPolicies(client); state.Policies = policies
listPolicies ==
    /\ pc = "listPolicies"
    /\ \E ok \in Outcomes(TRUE) :
          LET newlog == Append(log, CallEvent("list-policies", <<>>, EmptyObj, ok))
          IN  IF ok
              THEN /\ state' = [state EXCEPT !.Policies = PoliciesOut(vPolicies)]
                   /\ log' = newlog
                   /\ pc' = "return"
                   /\ iter' = {}
                   /\ ret' = ret
              ELSE Fail(ErrVault, newlog)
    /\ UNCHANGED vaultVars
    /\ UNCHANGED frame

\* return state, nil
Return ==
    /\ pc = "return"
    /\ pc' = "done"
    /\ ret' = [state |-> state, err |-> NoErr]
    /\ UNCHANGED <<state, iter, log>>
    /\ UNCHANGED vaultVars
    /\ UNCHANGED frame

Next ==
    \/ Configure
    \/ NewVaultClient
    \/ addSysMounts
    \/ tuneSysMounts
    \/ listMounts
    \/ addSysAuths
    \/ deleteSysAuths
    \/ listAuths
    \/ addSysPolicies
    \/ deleteSysPolicies
    \/ listPolicies
    \/ Return

Spec == Init /\ [][Next]_vars

----------------------------------------------------------------------------
\* Vocabulary of the properties.

MountOps == {"mount", "tune-mount", "list-mounts"}
AuthOps == {"auth-enable", "auth-disable", "list-auth"}
PolicyOps == {"policy-put", "policy-delete", "list-policies"}
ListOps == {"list-mounts", "list-auth", "list-policies"}
VaultOps == MountOps \cup AuthOps \cup PolicyOps

\* the Vault calls made so far, in order
VaultCalls == SelectSeq(log, LAMBDA e : e.op \in VaultOps)

\* the position of a call's namespace in the order mounts, auths, policies
Rank(op) == IF op \in MountOps THEN 1 ELSE IF op \in AuthOps THEN 2 ELSE 3

CallsOf(ops) == { i \in 1 .. Len(VaultCalls) : VaultCalls[i].op \in ops }

Returned == pc = "done"
Succeeded == pc = "done" /\ ret.err = NoErr
Failed == pc = "done" /\ ret.err # NoErr

HasFailure(l) == \E i \in 1 .. Len(l) : ~l[i].ok

----------------------------------------------------------------------------
\* C1: in a Configure call every mount call precedes every auth call, which
\* precedes every policy call, and a namespace without classified requests
\* gets no Vault call.
C1_NamespaceOrder ==
    /\ \A i, j \in 1 .. Len(VaultCalls) :
          i < j => Rank(VaultCalls[i].op) <= Rank(VaultCalls[j].op)
    /\ ~hasSysMountRequests(opts) => CallsOf(MountOps) = {}
    /\ ~hasSysAuthRequests(opts) => CallsOf(AuthOps) = {}
    /\ ~hasSysPolicyRequests(opts) => CallsOf(PolicyOps) = {}

\* a successful call that touched all three namespaces
C1_Witness ==
    /\ Succeeded
    /\ CallsOf(MountOps) # {} /\ CallsOf(AuthOps) # {} /\ CallsOf(PolicyOps) # {}

\* C2: a Configure call that returns an error returns a ConfigState with
\* Mounts, Auths and Policies all unset.
C2_NoPartialStateOnError ==
    Failed => /\ ~ret.state.Mounts.set
              /\ ~ret.state.Auths.set
              /\ ~ret.state.Policies.set

\* C3: the step in which a file read or a Vault call fails ends the call with
\* that failure as the last thing done and leaves Vault as the earlier calls
\* made it; once Configure has returned an error nothing more is read, called
\* or changed.
C3_StopAtFirstError ==
    [][/\ HasFailure(log') =>
            /\ pc' = "done" /\ ret'.err # NoErr
            /\ \A i \in 1 .. Len(log') - 1 : log'[i].ok
            /\ vaultVars' = vaultVars
       /\ Failed => (log' = log /\ vaultVars' = vaultVars)]_vars

\* a mount was enabled, a later call failed, and the mount is still there
C3_Witness ==
    /\ Failed
    /\ Len(log) >= 3
    /\ ~log[Len(log)].ok
    /\ \E i \in 1 .. Len(log) - 1 :
          /\ log[i].op = "mount" /\ log[i].ok
          /\ VaultKey(log[i].path) \in DOMAIN vMounts

\* C4: on success each of Mounts, Auths and Policies is set exactly when its
\* namespace had a classified request.
C4_SetIffRequested ==
    Succeeded =>
        /\ ret.state.Mounts.set <=> hasSysMountRequests(opts)
        /\ ret.state.Auths.set <=> hasSysAuthRequests(opts)
        /\ ret.state.Policies.set <=> hasSysPolicyRequests(opts)

\* a bundle with only a mount tune: Mounts set, Auths and Policies unset
C4_Witness ==
    /\ Succeeded
    /\ Len0(opts.SysMountAddReq) /\ ~Len0(opts.SysMountUpdReq)
    /\ ret.state.Mounts.set /\ ~ret.state.Auths.set /\ ~ret.state.Policies.set

\* The collection returned names the backends Vault holds, each with Vault's
\* type, description and lease settings.
SameBackends(out, held) ==
    /\ DOMAIN out = DOMAIN held
    /\ \A k \in DOMAIN held :
          /\ out[k].Type = held[k].Type
          /\ out[k].Description = held[k].Description
          /\ out[k].Config.DefaultLeaseTTL = held[k].Config.DefaultLeaseTTL
          /\ out[k].Config.MaxLeaseTTL = held[k].Config.MaxLeaseTTL

\* C5: on success every touched namespace was listed exactly once, after all
\* its add, tune and disable calls, and the collection returned is what Vault
\* held at that listing.
C5_ListedAfterChanges ==
    Succeeded =>
        /\ \A ops \in {MountOps, AuthOps, PolicyOps} :
              CallsOf(ops) # {} =>
                /\ Cardinality(CallsOf(ops \cap ListOps)) = 1
                /\ \A i \in CallsOf(ops \ ListOps), j \in CallsOf(ops \cap ListOps) : i < j
        /\ ret.state.Mounts.set =>
              /\ CallsOf({"list-mounts"}) # {}
              /\ SameBackends(ret.state.Mounts.val, vMounts)
        /\ ret.state.Auths.set =>
              /\ CallsOf({"list-auth"}) # {}
              /\ SameBackends(ret.state.Auths.val, vAuths)
        /\ ret.state.Policies.set =>
              /\ CallsOf({"list-policies"}) # {}
              /\ ret.state.Policies.val = DOMAIN vPolicies

\* a mount added and a mount tuned, then listed, and an auth backend disabled
C5_Witness ==
    /\ Succeeded
    /\ CallsOf({"mount"}) # {} /\ CallsOf({"tune-mount"}) # {}
    /\ CallsOf({"auth-disable"}) # {}
    /\ ret.state.Mounts.set /\ ret.state.Auths.set

\* The staged bundles, and the files of one that a walk for *.json finds.
StagedIds == DOMAIN staged

Segments(d) == SelectSeq(d, LAMBDA t : t # "/")

IsJsonName(name) ==
    Len(name) >= 2 /\ name[Len(name)] = "json" /\ name[Len(name) - 1] = "."

\* The action kind the bundle layout gives a file the walk finds, "none"
\* when it gives none:
\* sys/<namespace>/<path>[/tune|/disable]/<file>.json.
KindOf(f) ==
    LET segs == Segments(FileUniverse[f].dir)
        rest == SubSeq(segs, 3, Len(segs))
        suffix == IF Len(rest) >= 2 THEN rest[Len(rest)] ELSE "none"
    IN  IF ~MatchExt(FileUniverse[f].name) \/ Len(segs) < 3 \/ segs[1] # "sys"
        THEN "none"
        ELSE IF segs[2] = "mounts"
        THEN (IF suffix = "tune" THEN "mount-tune"
              ELSE IF suffix = "disable" THEN "none" ELSE "mount-add")
        ELSE IF segs[2] = "auth"
        THEN (IF suffix = "tune" THEN "none"
              ELSE IF suffix = "disable" THEN "auth-disable" ELSE "auth-add")
        ELSE IF segs[2] = "policy"
        THEN (IF suffix = "tune" THEN "none"
              ELSE IF suffix = "disable" THEN "policy-disable" ELSE "policy-add")
        ELSE "none"

\* C6: a Configure call whose fetched content has no data/ subdirectory
\* fails with SrcMalformed, builds no Vault client and makes no Vault call.
C6_NoDataDirIsMalformed ==
    \A id \in StagedIds :
        staged[id].entry \in {"absent", "file"} =>
            /\ Returned /\ ret.err = ErrSrcMalformed
            /\ clients = 0 /\ VaultCalls = <<>>

\* C7: a fetched bundle none of whose files classifies makes Configure fail
\* with the no-valid-configuration-files error, not SrcMalformed and not
\* success, without a Vault client or a Vault call.
C7_NoRequestsIsAnError ==
    \A id \in StagedIds :
        (staged[id].entry = "dir" /\ \A f \in staged[id].files : KindOf(f) = "none") =>
            /\ Returned
            /\ ret.err = ErrSrcReqEmpty /\ ret.err # ErrSrcMalformed
            /\ clients = 0 /\ VaultCalls = <<>>

\* a bundle holding only a file outside the three namespaces was refused
C7_Witness ==
    /\ Returned /\ ret.err = ErrSrcReqEmpty
    /\ \E id \in StagedIds : staged[id].entry = "dir" /\ staged[id].files = {1}

\* C8: with the staging root unset, missing or not stat-able, Configure fails
\* with DestUnset, DestDoesNotExist or DestStatFail whatever url and token
\* are, and fetches nothing.
C8_DestCheckedFirst ==
    (pc # "idle" /\ cfgDir # "ok") =>
        /\ Returned
        /\ cfgDir \in {"unset", "empty"} => ret.err = ErrDestUnset
        /\ cfgDir = "missing" => ret.err = ErrDestDoesNotExist
        /\ cfgDir = "statfail" => ret.err = ErrDestStatFail
        /\ fetches = <<>> /\ StagedIds = {} /\ nextID = 1

\* url and token both empty, and still the staging root is what is reported
C8_Witness ==
    /\ Returned /\ cfgDir = "missing"
    /\ req.URL = "" /\ req.Token = ""
    /\ ret.err = ErrDestDoesNotExist

\* C9: with a valid staging root, an empty url or token fails with the
\* `required` error of the first empty field, url before token; nothing is
\* fetched or staged, no request id is drawn and no Vault call is made.
C9_RequiredFields ==
    (pc # "idle" /\ cfgDir = "ok" /\ (req.URL = "" \/ req.Token = "")) =>
        /\ Returned
        /\ ret.err = IF req.URL = "" THEN ErrURLRequired ELSE ErrTokenRequired
        /\ fetches = <<>> /\ StagedIds = {} /\ nextID = 1
        /\ clients = 0 /\ VaultCalls = <<>>

\* url and token both empty: the url is the one reported
C9_Witness ==
    /\ Returned /\ cfgDir = "ok"
    /\ req.URL = "" /\ req.Token = ""
    /\ ret.err = ErrURLRequired

\* the <p> of a file at data/sys/mounts/<p>/<f>.json
MountPathOf(f) ==
    LET d == FileUniverse[f].dir IN SubSeq(d, Len(sysmountslit) + 1, Len(d) - 1)

\* a file at data/sys/mounts/<p>/<f>.json, <p> not empty and not ending in
\* a tune or disable segment
IsMountAddFile(f) ==
    /\ IsJsonName(FileUniverse[f].name)
    /\ HasPrefix(FileUniverse[f].dir, sysmountslit)
    /\ MountPathOf(f) # <<>>
    /\ MountPathOf(f)[Len(MountPathOf(f))] \notin {"tune", "disable"}

\* C10: every such file has its <p>, whole, as a key of the mount-add map,
\* with ConfigPath <p>, Action mount-add and VaultEndPoint /sys/mounts/,
\* the entry being a file of that directory.
C10_MountAddClassified ==
    \A id \in StagedIds : \A f \in staged[id].files :
        IsMountAddFile(f) =>
            /\ opts.ConfigID = id
            /\ MountPathOf(f) \in DOMAIN opts.SysMountAddReq
            /\ LET meta == opts.SysMountAddReq[MountPathOf(f)]
               IN  /\ meta.ConfigPath = MountPathOf(f)
                   /\ meta.Action = sysMountAdd
                   /\ meta.VaultEndPoint = <<"/", "sys", "/", "mounts", "/">>
                   /\ \E g \in staged[id].files :
                         /\ FileUniverse[g].dir = FileUniverse[f].dir
                         /\ meta.File = FileUniverse[g].name
                         /\ meta.FullPath =
                              SrcData(1) \o FileUniverse[g].dir \o FileUniverse[g].name

\* a multi-segment path kept whole, next to a single-segment one
C10_Witness ==
    /\ <<"a", "/", "b">> \in DOMAIN opts.SysMountAddReq
    /\ <<"a">> \in DOMAIN opts.SysMountAddReq
    /\ opts.SysMountAddReq[<<"a", "/", "b">>].ConfigPath = <<"a", "/", "b">>

\* a file at data/sys/mounts/<p>/tune/<f>.json, <p> not empty
IsMountTuneFile(f) ==
    /\ IsJsonName(FileUniverse[f].name)
    /\ HasPrefix(FileUniverse[f].dir, sysmountslit)
    /\ HasSuffix(FileUniverse[f].dir, <<"/", "tune", "/">>)
    /\ Len(FileUniverse[f].dir) > Len(sysmountslit) + 3

\* its <p>
TunePathOf(f) ==
    LET d == FileUniverse[f].dir IN SubSeq(d, Len(sysmountslit) + 1, Len(d) - 3)

\* the lease values written in the file
LeaseValues(f) ==
    [DefaultLeaseTTL |-> Str(FileUniverse[f].json, "default_lease_ttl"),
     MaxLeaseTTL |-> Str(FileUniverse[f].json, "max_lease_ttl")]

TuneCalls(p) == { i \in 1 .. Len(log) : log[i].op = "tune-mount" /\ log[i].path = p }

IsDisableFile(f, nslit) ==
    /\ IsJsonName(FileUniverse[f].name)
    /\ HasPrefix(FileUniverse[f].dir, nslit)
    /\ HasSuffix(FileUniverse[f].dir, <<"/", "disable", "/">>)
    /\ Len(FileUniverse[f].dir) > Len(nslit) + 3

\* its <p>
DisablePathOf(f, nslit) ==
    LET d == FileUniverse[f].dir IN SubSeq(d, Len(nslit) + 1, Len(d) - 3)

\* where the file lies in the staging area of request id
StagedPath(id, f) ==
    StagingRoot \o <<"/", id, "/", "data">> \o FileUniverse[f].dir \o FileUniverse[f].name

WasRead(id, f) ==
    \E i \in 1 .. Len(log) : log[i].op = "read-file" /\ log[i].path = StagedPath(id, f)

CallsFor(op, p) == { i \in 1 .. Len(log) : log[i].op = op /\ log[i].path = p }

\* C12: a file at data/sys/auth/<p>/disable/<f>.json has an auth-disable
\* entry keyed by <p>, one at data/sys/policy/<p>/disable/<f>.json a
\* policy-delete entry keyed by <p>; the file is never read, whatever it
\* holds, and a successful Configure made the call for <p> once.
C12_DisableIgnoresContent ==
    \A id \in StagedIds : \A f \in staged[id].files :
        /\ IsDisableFile(f, <<"/", "sys", "/", "auth", "/">>) =>
              LET p == DisablePathOf(f, <<"/", "sys", "/", "auth", "/">>)
              IN  /\ p \in DOMAIN opts.SysAuthDelReq
                  /\ opts.SysAuthDelReq[p].ConfigPath = p
                  /\ opts.SysAuthDelReq[p].Action = sysAuthDelete
                  /\ ~WasRead(id, f)
                  /\ Succeeded => Cardinality(CallsFor("auth-disable", p)) = 1
        /\ IsDisableFile(f, <<"/", "sys", "/", "policy", "/">>) =>
              LET p == DisablePathOf(f, <<"/", "sys", "/", "policy", "/">>)
              IN  /\ p \in DOMAIN opts.SysPolicyDelReq
                  /\ opts.SysPolicyDelReq[p].ConfigPath = p
                  /\ opts.SysPolicyDelReq[p].Action = sysPolicyDelete
                  /\ ~WasRead(id, f)
                  /\ Succeeded => Cardinality(CallsFor("policy-delete", p)) = 1

\* an auth backend disabled by a file that is not well-formed JSON
C12_Witness ==
    /\ Succeeded
    /\ \E id \in StagedIds : 2 \in staged[id].bad
    /\ \E i \in CallsFor("auth-disable", <<"a">>) : log[i].ok

\* a file at data/<ns>/<p>/<action>/<f>.json, <p> not empty
IsActionFile(f, nslit, action) ==
    /\ IsJsonName(FileUniverse[f].name)
    /\ HasPrefix(FileUniverse[f].dir, nslit)
    /\ HasSuffix(FileUniverse[f].dir, <<"/", action, "/">>)
    /\ Len(FileUniverse[f].dir) > Len(nslit) + 3

\* the combinations without support: unmounting, tuning an auth backend,
\* tuning a policy
IsUnsupported(f) ==
    \/ IsActionFile(f, <<"/", "sys", "/", "mounts", "/">>, "disable")
    \/ IsActionFile(f, <<"/", "sys", "/", "auth", "/">>, "tune")
    \/ IsActionFile(f, <<"/", "sys", "/", "policy", "/">>, "tune")

\* the six request maps
RequestMaps(o) ==
    <<o.SysMountAddReq, o.SysMountUpdReq, o.SysAuthAddReq, o.SysAuthDelReq,
      o.SysPolicyAddReq, o.SysPolicyDelReq>>

\* C13: a file of an unsupported combination is the file of no entry of
\* the six request maps and is never read; the maps and the action kinds
\* are those of the bundle without such files; a bundle of only such files
\* is refused as holding no valid request, with no Vault call.
C13_UnsupportedSkipped ==
    \A id \in StagedIds :
        LET files == staged[id].files
            skipped == { f \in files : IsUnsupported(f) }
        IN  /\ \A f \in skipped :
                  /\ \A n \in 1 .. 6 : \A k \in DOMAIN RequestMaps(opts)[n] :
                        RequestMaps(opts)[n][k].FullPath # StagedPath(id, f)
                  /\ ~WasRead(id, f)
            /\ opts.ConfigID = id =>
                  opts = categorize([ZeroOpts EXCEPT !.ConfigID = opts.ConfigID,
                                                     !.Token = opts.Token,
                                                     !.SourceDir = opts.SourceDir],
                                    staged[id].entry, files \ skipped)
            /\ (staged[id].entry = "dir" /\ files # {} /\ skipped = files) =>
                  /\ Returned /\ ret.err = ErrSrcReqEmpty
                  /\ opts = ZeroOpts /\ VaultCalls = <<>>

\* a bundle of an unmount, an auth tune and a policy tune, refused
C13_Witness ==
    /\ Returned /\ ret.err = ErrSrcReqEmpty
    /\ \E id \in StagedIds : staged[id].entry = "dir" /\ staged[id].files = {4, 6, 15}

\* C14: a file whose name does not end in .json is the file of no entry of
\* the six request maps and is never read, so that no Vault call comes of it.
C14_OnlyJsonFiles ==
    \A id \in StagedIds : \A f \in staged[id].files :
        ~IsJsonName(FileUniverse[f].name) =>
            /\ \A n \in 1 .. 6 : \A k \in DOMAIN RequestMaps(opts)[n] :
                  RequestMaps(opts)[n][k].FullPath # StagedPath(id, f)
            /\ ~WasRead(id, f)

\* the <p> of a file with an action kind: its directory between the
\* namespace and the action suffix, if it has one
ConfigPathOf(f) ==
    LET d == FileUniverse[f].dir
        cut == IF KindOf(f) \in {"mount-tune", "auth-disable", "policy-disable"} THEN 3 ELSE 1
    IN  SubSeq(d, 6, Len(d) - cut)

\* the request map of an action kind, and the Vault call made for its entries
MapOf(o, kind) ==
    CASE kind = "mount-add" -> o.SysMountAddReq
      [] kind = "mount-tune" -> o.SysMountUpdReq
      [] kind = "auth-add" -> o.SysAuthAddReq
      [] kind = "auth-disable" -> o.SysAuthDelReq
      [] kind = "policy-add" -> o.SysPolicyAddReq
      [] kind = "policy-disable" -> o.SysPolicyDelReq

OpOf(kind) ==
    CASE kind = "mount-add" -> "mount"
      [] kind = "mount-tune" -> "tune-mount"
      [] kind = "auth-add" -> "auth-enable"
      [] kind = "auth-disable" -> "auth-disable"
      [] kind = "policy-add" -> "policy-put"
      [] kind = "policy-disable" -> "policy-delete"

\* the file of the bundle found last among those with f's kind and <p>
LastOfKind(files, f) ==
    CHOOSE g \in files :
        /\ KindOf(g) = KindOf(f) /\ ConfigPathOf(g) = ConfigPathOf(f)
        /\ \A h \in files :
              (KindOf(h) = KindOf(f) /\ ConfigPathOf(h) = ConfigPathOf(f)) => h <= g

\* C15: each entry of a request map has its key as ConfigPath; of the files
\* with one action kind and <p> the one found last is the entry's file, the
\* others are never read, classification raises no error, and a successful
\* Configure made one Vault call for that kind and <p>.
C15_LastWriteWins ==
    /\ \A n \in 1 .. 6 : \A k \in DOMAIN RequestMaps(opts)[n] :
          RequestMaps(opts)[n][k].ConfigPath = k
    /\ \A id \in StagedIds : \A f \in staged[id].files :
          (staged[id].entry = "dir" /\ KindOf(f) # "none") =>
              /\ opts.ConfigID = id
              /\ ConfigPathOf(f) \in DOMAIN MapOf(opts, KindOf(f))
              /\ MapOf(opts, KindOf(f))[ConfigPathOf(f)].FullPath =
                     StagedPath(id, LastOfKind(staged[id].files, f))
              /\ f # LastOfKind(staged[id].files, f) => ~WasRead(id, f)
              /\ Succeeded =>
                     Cardinality(CallsFor(OpOf(KindOf(f)), ConfigPathOf(f))) = 1

\* f.json and g.json in data/sys/mounts/a/: g.json, found last, is the one
\* mounted, in one call
C15_Witness ==
    /\ Succeeded
    /\ \E id \in StagedIds : {7, 8} \subseteq staged[id].files /\ ~WasRead(id, 7)
    /\ Cardinality(CallsFor("mount", <<"a">>)) = 1
    /\ \A i \in CallsFor("mount", <<"a">>) : log[i].arg.Type = "aws"

----------------------------------------------------------------------------
\* Classification on its own: validate has fetched a bundle into the staging
\* subdirectory of request 1 and built cfgState; categorize then runs over
\* it, and may run again over the same content.

\* the longest Actions list a run may start from
MaxActions == 6

\* cfgState := configOptsExp{ConfigID, Token, SourceDir}
NewCfgState(requestid, token) ==
    [ZeroOpts EXCEPT !.ConfigID = ToString(requestid),
                     !.Token = token,
                     !.SourceDir = SrcData(requestid)]

\* the bundles that hold one nested file
NestedSources == { [entry |-> "dir", files |-> {f}, bad |-> {}] : f \in NestedFiles }

InitClassify ==
    /\ cfgDir = "ok"
    /\ vaultEnv = PlainSettings
    /\ req = [URL |-> "file:///bundle", Token |-> "s.token"]
    /\ pc = "categorize"
    /\ opts = NewCfgState(1, "s.token")
    /\ iter = {}
    /\ state = ZeroState
    /\ ret = NoRet
    /\ log = <<>>
    /\ vMounts = BuiltinMounts
    /\ vAuths = BuiltinAuths
    /\ vPolicies = BuiltinPolicies
    /\ nextID = 2
    /\ fetches = <<[dst |-> SrcDest(1), url |-> "file:///bundle"]>>
    /\ \E src \in Sources \cup NestedSources :
          /\ src.entry \in {"dir", "file"}
          /\ staged = Put(EmptyObj, ToString(1), src)
    /\ clients = 0
    /\ clientToken = ""
    /\ client = NilClient
    /\ validateVar = NewValidator(1)
    /\ self = 1
    /\ other = IdleCall
    /\ SvcIdle

\* cfgState.categorize(), on the cfgState as it stands
Categorize ==
    /\ pc \in {"categorize", "categorized"}
    /\ Len(opts.Actions) < MaxActions
    /\ opts' = categorize(opts, staged[opts.ConfigID].entry, staged[opts.ConfigID].files)
    /\ pc' = "categorized"
    /\ UNCHANGED <<cfgDir, svcVars, vaultEnv, req, iter, state, ret, log, vaultVars, nextID,
                   fetches, staged, clients, clientToken, client, validateVar,
                   self, other>>

\* categorize() on a new cfgState with the same SourceDir
CategorizeAnew ==
    /\ pc = "categorized"
    /\ opts' = categorize(NewCfgState(1, opts.Token),
                          staged[opts.ConfigID].entry, staged[opts.ConfigID].files)
    /\ pc' = "categorized"
    /\ UNCHANGED <<cfgDir, svcVars, vaultEnv, req, iter, state, ret, log, vaultVars, nextID,
                   fetches, staged, clients, clientToken, client, validateVar,
                   self, other>>

NextClassify ==
    \/ Categorize
    \/ CategorizeAnew

SpecClassify == InitClassify /\ [][NextClassify]_vars

----------------------------------------------------------------------------
\* Two Configure calls running at once.  One call runs at a time on the
\* variables of the single call; Switch hands the processor to the other
\* call between any two steps.  The staging root, the request id generator,
\* the package variable `validate` and Vault are shared.

\* the bundles the two calls fetch
ConcurrentSources ==
    { [entry |-> "absent", files |-> {}, bad |-> {}],
      [entry |-> "dir", files |-> {7, 10}, bad |-> {}],
      [entry |-> "dir", files |-> {3, 14}, bad |-> {}],
      [entry |-> "dir", files |-> {2, 13}, bad |-> {}] }

InitConcurrent ==
    /\ cfgDir = "ok"
    /\ vaultEnv = PlainSettings
    /\ req = NoReq
    /\ pc = "idle"
    /\ opts = ZeroOpts
    /\ iter = {}
    /\ state = ZeroState
    /\ ret = NoRet
    /\ log = <<>>
    /\ vMounts = BuiltinMounts
    /\ vAuths = BuiltinAuths
    /\ vPolicies = BuiltinPolicies
    /\ nextID = 1
    /\ fetches = <<>>
    /\ staged = EmptyObj
    /\ clients = 0
    /\ clientToken = ""
    /\ client = NilClient
    /\ validateVar = NilValidator
    /\ self = 1
    /\ other = IdleCall
    /\ SvcIdle

\* the running call is suspended and the other one resumed
Switch ==
    /\ other' = [pc |-> pc, req |-> req, opts |-> opts, iter |-> iter, state |-> state,
                 ret |-> ret, log |-> log, clients |-> clients,
                 clientToken |-> clientToken,
                 client |-> client]
    /\ pc' = other.pc
    /\ req' = other.req
    /\ opts' = other.opts
    /\ iter' = other.iter
    /\ state' = other.state
    /\ ret' = other.ret
    /\ log' = other.log
    /\ clients' = other.clients
    /\ clientToken' = other.clientToken
    /\ client' = other.client
    /\ self' = 3 - self
    /\ UNCHANGED <<cfgDir, svcVars, vaultEnv, vaultVars, nextID, fetches, staged, validateVar>>

\* validate up to and with `validate = validator.New()`
validateNew ==
    /\ pc = "idle"
    /\ \E url \in {"", "file:///bundle"}, token \in {"", "s.token"} :
          req' = [URL |-> url, Token |-> token]
    /\ IF destErr(cfgDir) # NoErr
       THEN /\ pc' = "done"
            /\ ret' = [state |-> ZeroState, err |-> destErr(cfgDir)]
            /\ validateVar' = validateVar
       ELSE /\ pc' = "validate.Struct"
            /\ ret' = ret
            /\ validateVar' = NewValidator(self)
    /\ UNCHANGED <<cfgDir, svcVars, vaultEnv, opts, iter, state, log, vaultVars, nextID, fetches,
                   staged, clients, clientToken, client, self, other>>

\* err := validate.Struct(opts), with the validator the variable points to
validateStruct ==
    /\ pc = "validate.Struct"
    /\ IF structErr(req) # NoErr
       THEN /\ pc' = "done"
            /\ ret' = [state |-> ZeroState, err |-> structErr(req)]
       ELSE /\ pc' = "nuid.Next"
            /\ ret' = ret
    /\ UNCHANGED <<cfgDir, svcVars, vaultEnv, req, opts, iter, state, log, vaultVars, nextID,
                   fetches, staged, clients, clientToken, client, validateVar,
                   self, other>>

\* validate from nuid.Next() on
validateRetrieve ==
    /\ pc = "nuid.Next"
    /\ \E src \in ConcurrentSources :
          LET v == retrieve(req, nextID, src)
          IN  /\ nextID' = nextID + 1
              /\ fetches' = Append(fetches, [dst |-> SrcDest(nextID), url |-> req.URL])
              /\ staged' = IF v.step \in {"layout", "categorize"}
                            THEN Put(staged, ToString(nextID), src) ELSE staged
              /\ IF v.err # NoErr
                 THEN /\ pc' = "done"
                      /\ ret' = [state |-> ZeroState, err |-> v.err]
                      /\ opts' = opts
                 ELSE /\ pc' = "NewVaultClient"
                      /\ ret' = ret
                      /\ opts' = v.opts
    /\ UNCHANGED <<cfgDir, svcVars, vaultEnv, req, iter, state, log, vaultVars, clients,
                   clientToken, client, validateVar,
                   self, other>>

NextConcurrent ==
    \/ Switch
    \/ validateNew
    \/ validateStruct
    \/ validateRetrieve
    \/ NewVaultClient
    \/ addSysMounts
    \/ tuneSysMounts
    \/ listMounts
    \/ addSysAuths
    \/ deleteSysAuths
    \/ listAuths
    \/ addSysPolicies
    \/ deleteSysPolicies
    \/ listPolicies
    \/ Return

SpecConcurrent == InitConcurrent /\ [][NextConcurrent]_vars

\* the two calls, the running one first
Running ==
    [pc |-> pc, req |-> req, opts |-> opts, iter |-> iter, state |-> state,
     ret |-> ret, log |-> log, clients |-> clients, clientToken |-> clientToken,
     client |-> client]

Calls == <<Running, other>>

\* the staging subdirectory named by a request id
SubdirOf(id) == StagingRoot \o <<"/", id>>

\* the files a call has read
ReadsOf(call) == { call.log[i].path : i \in { j \in 1 .. Len(call.log) : call.log[j].op = "read-file" } }

C18_NoSharedMutableState ==
    /\ pc = "validate.Struct" => validateVar = NewValidator(self)
    /\ other.pc = "validate.Struct" => validateVar = NewValidator(3 - self)

----------------------------------------------------------------------------
\* The client factory under every combination of supplied settings and
\* environment variables: a Configure call whose validate() has returned, for a
\* bundle that holds one policy to delete.

\* What viperConfig and bindCobra let each key be given: every key by the
\* configuration file or its ARMOR_ environment variable, the three string keys
\* that have a flag also as the empty string.
GivenSettings ==
    [vault_address : {NotGiven, "", "%zz"},
     vault_ca_cert : {NotGiven, "cfg/ca.pem"},
     vault_ca_path : {NotGiven, "cfg/ca"},
     vault_client_cert : {NotGiven, "", "cfg/client.pem"},
     vault_client_key : {NotGiven, "", "cfg/client.key"},
     vault_skip_verify : {NotGiven, "true", "maybe"}]
EnvSettings ==
    [VAULT_ADDRESS : {"", "https://vault.env:8200"},
     VAULT_CACERT : {"", "env/ca.pem"},
     VAULT_CAPATH : {"", "env/ca"},
     VAULT_CLIENT_CERT : {"", "env/client.pem"},
     VAULT_CLIENT_KEY : {"", "env/client.key"},
     VAULT_SKIP_VERIFY : {"", "true", "maybe"}]

ClientSource == [entry |-> "dir", files |-> {13}, bad |-> {}]
ClientRequest == [URL |-> "file:///bundle", Token |-> "s.token"]

InitClient ==
    /\ cfgDir = "ok"
    /\ vaultEnv \in [given : GivenSettings, env : EnvSettings]
    /\ req = ClientRequest
    /\ pc = "NewVaultClient"
    /\ opts = validate("ok", ClientRequest, 1, ClientSource).opts
    /\ iter = {}
    /\ state = ZeroState
    /\ ret = NoRet
    /\ log = <<>>
    /\ vMounts = BuiltinMounts
    /\ vAuths = BuiltinAuths
    /\ vPolicies = Put(BuiltinPolicies, <<"a">>, "path x {}")
    /\ nextID = 2
    /\ fetches = <<[dst |-> SrcDest(1), url |-> "file:///bundle"]>>
    /\ staged = Put(EmptyObj, ToString(1), ClientSource)
    /\ clients = 0
    /\ clientToken = ""
    /\ client = NilClient
    /\ validateVar = NewValidator(1)
    /\ self = 1
    /\ other = IdleCall
    /\ SvcIdle

NextClient ==
    \/ NewVaultClient
    \/ deleteSysPolicies
    \/ listPolicies
    \/ Return

SpecClient == InitClient /\ [][NextClient]_vars

\* the settings of the factory: the client's field, the key of the store, the
\* environment variable
StringSettings ==
    { <<"Address", "vault_address", "VAULT_ADDRESS">>,
      <<"CACert", "vault_ca_cert", "VAULT_CACERT">>,
      <<"CAPath", "vault_ca_path", "VAULT_CAPATH">>,
      <<"ClientCert", "vault_client_cert", "VAULT_CLIENT_CERT">>,
      <<"ClientKey", "vault_client_key", "VAULT_CLIENT_KEY">> }

\* the store holds a non-empty value for the key
Stored(k) == IsSet(vaultEnv, k) /\ GetString(vaultEnv, k) # ""

C20_MalformedSkipVerifyFails ==
    (/\ clients > 0
     /\ vaultEnv.env.VAULT_SKIP_VERIFY # ""
     /\ ~ParseBool(vaultEnv.env.VAULT_SKIP_VERIFY).ok)
        => (~client.built /\ pc = "done" /\ ret.err # NoErr)

----------------------------------------------------------------------------
\* SealStatus and Unseal, and the way their result travels to a transport
\* client.

\* what only a Configure call writes
cfgVars ==
    <<cfgDir, opts, iter, state, vaultVars, nextID, fetches, staged, clientToken,
      validateVar, self, other>>
healthVars == <<healthzStatus, readinessStatus, handlers>>

\* SealState{}
ZeroSeal ==
    [Sealed |-> FALSE, T |-> 0, N |-> 0, Progress |-> 0, Version |-> "",
     ClusterName |-> "", ClusterID |-> ""]
ErrKeyOrReset == "'key' must specified, or 'reset' set to true"

\* Vault: the key shares it accepts, and its vaultapi.SealStatusResponse; the
\* cluster is named once Vault is unsealed
KeyShares == {"k1", "k2", "k3"}
SealStatusOf(v) ==
    [Sealed |-> v.sealed, T |-> v.t, N |-> v.n, Progress |-> Cardinality(v.entered),
     Version |-> "0.6.2",
     ClusterName |-> IF v.sealed THEN "" ELSE "vault-cluster-1",
     ClusterID |-> IF v.sealed THEN "" ELSE "c-7f3a"]
\* Vault after sys/unseal with a key share it accepts
Entered(v, key) ==
    IF ~v.sealed THEN v
    ELSE IF Cardinality(v.entered \cup {key}) >= v.t
         THEN [v EXCEPT !.sealed = FALSE, !.entered = {}]
         ELSE [v EXCEPT !.entered = v.entered \cup {key}]
\* Vault after sys/unseal with reset
ResetEntered(v) == [v EXCEPT !.entered = {}]

\* SealState{Sealed: resp.Sealed, ...}
SealStateOf(resp) ==
    [Sealed |-> resp.Sealed, T |-> resp.T, N |-> resp.N, Progress |-> resp.Progress,
     Version |-> resp.Version, ClusterName |-> resp.ClusterName,
     ClusterID |-> resp.ClusterID]

\* The Vault call of Unseal, the key looked at before the reset flag.
UnsealCallKeyFirst(o) == IF o.Key # "" THEN "unseal" ELSE "unseal-reset"

\* if opts.Reset { ResetUnsealProcess() } else { Unseal(opts.Key) }
UnsealCall(o) == IF o.Reset THEN "unseal-reset" ELSE "unseal"

UnsealInputs == [Key : {"", "zz"} \cup KeyShares, Reset : BOOLEAN]

InitSeal ==
    /\ cfgDir = "ok"
    /\ vaultEnv \in {PlainSettings, BadAddressSettings}
    /\ req = NoReq
    /\ pc = "idle"
    /\ opts = ZeroOpts
    /\ iter = {}
    /\ state = ZeroState
    /\ ret = [state |-> ZeroSeal, err |-> NoErr]
    /\ log = <<>>
    /\ vMounts = BuiltinMounts
    /\ vAuths = BuiltinAuths
    /\ vPolicies = BuiltinPolicies
    /\ nextID = 1
    /\ fetches = <<>>
    /\ staged = EmptyObj
    /\ clients = 0
    /\ clientToken = ""
    /\ client = NilClient
    /\ validateVar = NilValidator
    /\ self = 1
    /\ other = IdleCall
    /\ vSys = VaultCore(TRUE, TRUE, 2, 3)
    /\ registry = <<>>
    /\ received = NoneReceived
    /\ healthzStatus = StatusOK
    /\ readinessStatus = StatusOK
    /\ handlers = <<>>

\* proxyService.SealStatus
SealStatus ==
    /\ pc = "idle"
    /\ req' = [op |-> "SealStatus"]
    /\ pc' = "served"
    /\ clients' = 1
    /\ client' = VaultClientOf(vaultEnv).client
    /\ IF VaultClientOf(vaultEnv).err # NoErr
       THEN /\ ret' = [state |-> ZeroSeal, err |-> VaultClientOf(vaultEnv).err]
            /\ log' = <<>>
       ELSE \E ok \in BOOLEAN :
              /\ log' = <<CallEvent("seal-status", <<>>, EmptyObj, ok)>>
              /\ ret' = IF ok THEN [state |-> SealStateOf(SealStatusOf(vSys)),
                                    err |-> NoErr]
                        ELSE [state |-> ZeroSeal, err |-> ErrVault]
    /\ UNCHANGED <<cfgVars, vaultEnv, vSys, registry, received, healthVars>>

\* proxyService.Unseal
Unseal ==
    /\ pc = "idle"
    /\ \E o \in UnsealInputs :
          /\ req' = [op |-> "Unseal", opts |-> o]
          /\ pc' = "served"
          /\ clients' = 1
          /\ client' = VaultClientOf(vaultEnv).client
          /\ IF VaultClientOf(vaultEnv).err # NoErr
             THEN /\ ret' = [state |-> ZeroSeal, err |-> VaultClientOf(vaultEnv).err]
                  /\ log' = <<>>
                  /\ vSys' = vSys
             ELSE IF ~o.Reset /\ o.Key = ""
             THEN /\ ret' = [state |-> ZeroSeal, err |-> ErrKeyOrReset]
                  /\ log' = <<>>
                  /\ vSys' = vSys
             ELSE \E ok \in Outcomes(UnsealCall(o) = "unseal-reset" \/ o.Key \in KeyShares) :
                    LET after == IF UnsealCall(o) = "unseal-reset" THEN ResetEntered(vSys)
                                 ELSE Entered(vSys, o.Key)
                        arg == IF UnsealCall(o) = "unseal-reset" THEN "" ELSE o.Key
                    IN  /\ log' = <<CallEvent(UnsealCall(o), <<>>, arg, ok)>>
                        /\ vSys' = IF ok THEN after ELSE vSys
                        /\ ret' = IF ok THEN [state |-> SealStateOf(SealStatusOf(after)),
                                              err |-> NoErr]
                                  ELSE [state |-> ZeroSeal, err |-> ErrVault]
    /\ UNCHANGED <<cfgVars, vaultEnv, registry, received, healthVars>>

\* MakeSealStatusEndpoint and MakeUnsealEndpoint: the response of the endpoint
SealResponse(st, err) ==
    [Sealed |-> st.Sealed, T |-> st.T, N |-> st.N, Progress |-> st.Progress,
     Version |-> st.Version, ClusterName |-> st.ClusterName,
     ClusterID |-> st.ClusterID, Err |-> err]

\* json.Marshal of a SealStatusResponse or UnsealResponse: the members of the
\* object, the omitempty ones left out when empty and Err never written
SealJSON(r) ==
    LET always == [sealed |-> r.Sealed, t |-> r.T, n |-> r.N, progress |-> r.Progress,
                   version |-> r.Version]
        name == IF r.ClusterName = "" THEN always
                ELSE Put(always, "cluster_name", r.ClusterName)
    IN  IF r.ClusterID = "" THEN name ELSE Put(name, "cluster_id", r.ClusterID)

\* json.Unmarshal into a zero SealStatusResponse or UnsealResponse
SealFromJSON(j) ==
    [Sealed |-> j.sealed, T |-> j.t, N |-> j.n, Progress |-> j.progress,
     Version |-> j.version,
     ClusterName |-> IF "cluster_name" \in DOMAIN j THEN j.cluster_name ELSE "",
     ClusterID |-> IF "cluster_id" \in DOMAIN j THEN j.cluster_id ELSE "",
     Err |-> NoErr]

\* EncodeGenericResponse: the status code and body of the reply
HTTPReply(r) ==
    IF r.Err # NoErr THEN [code |-> 500, error |-> r.Err]
    ELSE [code |-> StatusOK, body |-> SealJSON(r)]

\* DecodeSealStatusResponse and DecodeUnsealResponse of the HTTP client: the
\* response and the error the client endpoint returns
HTTPDecoded(reply) ==
    IF reply.code # StatusOK THEN [response |-> SealResponse(ZeroSeal, NoErr),
                                   err |-> reply.error]
    ELSE [response |-> SealFromJSON(reply.body), err |-> NoErr]

\* uint32(x) and back with int(x) on a 64-bit build: a value from 0 on is
\* kept, a negative one arrives as 2^32 + x, written <<"2^32+", x>>
Uint32(x) == IF x >= 0 THEN x ELSE <<"2^32+", x>>

\* EncodeSealStatusResponse and EncodeUnsealResponse of the gRPC server
GRPCReply(r) ==
    [SealStatus |-> [Sealed |-> r.Sealed, T |-> Uint32(r.T), N |-> Uint32(r.N),
                     Progress |-> Uint32(r.Progress), Version |-> r.Version,
                     ClusterName |-> r.ClusterName, ClusterId |-> r.ClusterID],
     Err |-> r.Err]

\* DecodeSealStatusResponse and DecodeUnsealResponse of the gRPC client
GRPCDecoded(reply) ==
    [response |-> [Sealed |-> reply.SealStatus.Sealed, T |-> reply.SealStatus.T,
                   N |-> reply.SealStatus.N, Progress |-> reply.SealStatus.Progress,
                   Version |-> reply.SealStatus.Version,
                   ClusterName |-> reply.SealStatus.ClusterName,
                   ClusterID |-> reply.SealStatus.ClusterId,
                   Err |-> reply.Err],
     err |-> NoErr]

\* Endpoints.SealStatus and Endpoints.Unseal: what the caller of the client
\* gets from the decoded response
SealClientResult(d) ==
    IF d.err # NoErr THEN [state |-> ZeroSeal, err |-> d.err]
    ELSE [state |-> [Sealed |-> d.response.Sealed, T |-> d.response.T,
                     N |-> d.response.N, Progress |-> d.response.Progress,
                     Version |-> "",
                     ClusterName |-> d.response.ClusterName,
                     ClusterID |-> d.response.ClusterID],
          err |-> d.response.Err]

\* the reply to the HTTP client
RespondHTTP ==
    /\ pc = "served"
    /\ pc' = "idle"
    /\ received' = [op |-> req.op, via |-> "http",
                    result |-> SealClientResult(
                                  HTTPDecoded(HTTPReply(SealResponse(ret.state, ret.err))))]
    /\ UNCHANGED <<cfgVars, vaultEnv, req, ret, log, clients, client, vSys, registry,
                   healthVars>>

\* the reply to the gRPC client
RespondGRPC ==
    /\ pc = "served"
    /\ pc' = "idle"
    /\ received' = [op |-> req.op, via |-> "grpc",
                    result |-> SealClientResult(
                                  GRPCDecoded(GRPCReply(SealResponse(ret.state, ret.err))))]
    /\ UNCHANGED <<cfgVars, vaultEnv, req, ret, log, clients, client, vSys, registry,
                   healthVars>>

NextSeal ==
    \/ SealStatus
    \/ Unseal
    \/ RespondHTTP
    \/ RespondGRPC

SpecSeal == InitSeal /\ [][NextSeal]_vars

\* the Vault calls an Unseal request made
UnsealCalls == SelectSeq(log, LAMBDA e : e.op \in {"unseal", "unseal-reset"})

\* C21: an Unseal request makes at most one Vault call. With reset set, a call
\* it makes is the reset and carries no key; with reset unset and a key given,
\* a call it makes submits that key; with a client built it makes exactly one
\* of them. With reset unset and no key it returns an error and makes no call.
C21_UnsealOneCall ==
    (pc = "served" /\ req.op = "Unseal") =>
        /\ Len(log) <= 1
        /\ \A i \in 1 .. Len(log) :
              /\ log[i].op = (IF req.opts.Reset THEN "unseal-reset" ELSE "unseal")
              /\ log[i].arg = (IF req.opts.Reset THEN "" ELSE req.opts.Key)
        /\ (client.built /\ (req.opts.Reset \/ req.opts.Key # "")) => Len(log) = 1
        /\ (~req.opts.Reset /\ req.opts.Key = "") => (ret.err # NoErr /\ log = <<>>)

\* a reset asked for with a key supplied: one call, the reset
C21_Witness ==
    /\ pc = "served" /\ req.op = "Unseal"
    /\ req.opts.Reset /\ req.opts.Key = "k1"
    /\ Len(log) = 1 /\ log[1].op = "unseal-reset" /\ log[1].ok
    /\ vSys.entered = {}

\* C22: the seal state and error a transport client gets are the ones the
\* service returned.
C22_SealStateRoundTrip ==
    (pc = "idle" /\ received.op \in {"SealStatus", "Unseal"}) =>
        /\ received.result.state = ret.state
        /\ received.result.err = ret.err

----------------------------------------------------------------------------
\* Init: validation of the options, Vault initialization and the persistence
\* of the token holders.

\* the most key shares, and so key holders, a request of the model asks for
MaxShares == 2

ErrSharesRequired == "InitOptions.SecretShares validation failed on 'required' check"
ErrSharesGte == "InitOptions.SecretShares validation failed on 'gte' check"
ErrSharesLte == "InitOptions.SecretShares validation failed on 'lte' check"
ErrRootEmailRequired ==
    "InitOptions.RootTokenHolderEmail validation failed on 'required' check"
ErrRootEmailEmail == "InitOptions.RootTokenHolderEmail validation failed on 'email' check"
ErrHoldersRequired ==
    "InitOptions.SecretKeyHolderEmails validation failed on 'required' check"
ErrHoldersCount ==
    "InitOptions.SecretKeyHolderEmails validation failed on 'secretholders' check"
ErrPutItem == "dynamodb: PutItem failed"
RootTokenType == "root"
UnsealTokenType == "unseal"

\* the `email` tag of the validator
IsEmail(s) == s \in {"a@x.io", "root@x.io"}

\* The struct-level check left out.
NoStructLevelValidation(o) == <<>>

\* initOptionsStructLevelValidation: the errors it reports
initOptionsStructLevelValidation(o) ==
    IF o.SecretShares > 0 /\ Len(o.SecretKeyHolderEmails.val) # o.SecretShares
    THEN <<ErrHoldersCount>>
    ELSE <<>>

\* validate.Struct(opts): the errors of the fields in the order of the struct,
\* one per field at most, then those of the struct level
InitStructErrors(o) ==
    (IF o.SecretShares = 0 THEN <<ErrSharesRequired>>
     ELSE IF o.SecretShares < 1 THEN <<ErrSharesGte>>
     ELSE IF o.SecretShares > 10 THEN <<ErrSharesLte>>
     ELSE <<>>)
    \o (IF o.RootTokenHolderEmail = "" THEN <<ErrRootEmailRequired>>
        ELSE IF ~IsEmail(o.RootTokenHolderEmail) THEN <<ErrRootEmailEmail>>
        ELSE <<>>)
    \o (IF ~o.SecretKeyHolderEmails.set THEN <<ErrHoldersRequired>> ELSE <<>>)
    \o initOptionsStructLevelValidation(o)

\* InitOptions.validate(): the first error, or none
initValidate(o) ==
    IF InitStructErrors(o) = <<>> THEN NoErr ELSE Head(InitStructErrors(o))

\* InitKeys{}
ZeroKeys == [Keys |-> <<>>, RootToken |-> ""]
\* Vault's answer to sys/init: one key per share and the root token
GeneratedKeys(n) == [Keys |-> [i \in 1 .. n |-> <<"key", i>>], RootToken |-> "root-token"]

\* The holder of key i taken from the end of the list.
HolderEmailReversed(o, i) ==
    o.SecretKeyHolderEmails.val[Len(o.SecretKeyHolderEmails.val) + 1 - i]

\* tokenHolder.Email = opts.SecretKeyHolderEmails[i]
HolderEmail(o, i) == o.SecretKeyHolderEmails.val[i]

\* the TokenHolder that Init fills in
Holder(email, token, type) ==
    [Email |-> email, Token |-> token, TokenType |-> type,
     DateCreated |-> "now", DateInitialized |-> "now", DateDelivered |-> ""]

\* The token holder table: the items PutItem wrote, in order, and the table,
\* whose hash key is the email. DynamoDB refuses an empty key attribute.
EmptyRegistry == [writes |-> <<>>, table |-> EmptyObj]
PutItem(r, item) ==
    [writes |-> Append(r.writes, item), table |-> Put(r.table, item.Email, item)]

EmailLists ==
    {Unset} \cup { Set(s) : s \in UNION { [1 .. n -> {"a@x.io", "root@x.io"}] :
                                           n \in 0 .. MaxShares } }
InitInputs ==
    [SecretShares : {-1, 10, 11} \cup (0 .. MaxShares),
     RootTokenHolderEmail : {"", "root", "root@x.io"},
     SecretKeyHolderEmails : EmailLists]

InitInit ==
    /\ cfgDir = "ok"
    /\ vaultEnv \in {PlainSettings, BadAddressSettings}
    /\ req = NoReq
    /\ pc = "idle"
    /\ opts = ZeroOpts
    /\ iter = 0
    /\ state = ZeroState
    /\ ret = [state |-> ZeroKeys, err |-> NoErr]
    /\ log = <<>>
    /\ vMounts = BuiltinMounts
    /\ vAuths = BuiltinAuths
    /\ vPolicies = BuiltinPolicies
    /\ nextID = 1
    /\ fetches = <<>>
    /\ staged = EmptyObj
    /\ clients = 0
    /\ clientToken = ""
    /\ client = NilClient
    /\ validateVar = NilValidator
    /\ self = 1
    /\ other = IdleCall
    /\ \E initialized \in BOOLEAN : vSys = VaultCore(initialized, TRUE, 0, 0)
    /\ registry = EmptyRegistry
    /\ received = NoneReceived
    /\ healthzStatus = StatusOK
    /\ readinessStatus = StatusOK
    /\ handlers = <<>>

initFrame ==
    <<cfgDir, opts, state, vaultVars, nextID, fetches, staged, clientToken,
      validateVar, self, other, vaultEnv, received, healthVars>>

\* proxyService.Init up to the answer of client.Sys().Init
InitVault ==
    /\ pc = "idle"
    /\ \E o \in InitInputs :
          /\ req' = [op |-> "Init", opts |-> o]
          /\ IF initValidate(o) # NoErr
             THEN /\ pc' = "done"
                  /\ ret' = [state |-> ZeroKeys, err |-> initValidate(o)]
                  /\ UNCHANGED <<clients, client, log, vSys>>
             ELSE /\ clients' = clients + 1
                  /\ client' = VaultClientOf(vaultEnv).client
                  /\ IF VaultClientOf(vaultEnv).err # NoErr
                     THEN /\ pc' = "done"
                          /\ ret' = [state |-> ZeroKeys, err |-> VaultClientOf(vaultEnv).err]
                          /\ UNCHANGED <<log, vSys>>
                     ELSE \E ok \in Outcomes(~vSys.initialized) :
                            /\ log' = Append(log, CallEvent("init", <<>>, o.SecretShares, ok))
                            /\ vSys' = IF ok THEN VaultCore(TRUE, TRUE, o.SecretShares,
                                                            o.SecretShares)
                                       ELSE vSys
                            /\ pc' = IF ok THEN "PutRootHolder" ELSE "done"
                            /\ ret' = IF ok THEN [state |-> GeneratedKeys(o.SecretShares),
                                                  err |-> NoErr]
                                      ELSE [state |-> ZeroKeys, err |-> ErrVault]
    /\ UNCHANGED <<initFrame, iter, registry>>

\* tokenHolder.PutItem() for the root token
PutRootHolder ==
    /\ pc = "PutRootHolder"
    /\ LET item == Holder(req.opts.RootTokenHolderEmail, ret.state.RootToken,
                          RootTokenType)
       IN  \E ok \in BOOLEAN :
              /\ log' = Append(log, CallEvent("put-item", <<>>, item, ok))
              /\ registry' = IF ok THEN PutItem(registry, item) ELSE registry
              /\ ret' = IF ok THEN ret ELSE [ret EXCEPT !.err = ErrPutItem]
              /\ pc' = IF ~ok \/ Len(ret.state.Keys) = 0 THEN "done" ELSE "PutKeyHolder"
              /\ iter' = 1
    /\ UNCHANGED <<initFrame, req, clients, client, vSys>>

\* one turn of `for i, v := range resp.Keys`
PutKeyHolder ==
    /\ pc = "PutKeyHolder"
    /\ LET item == Holder(HolderEmail(req.opts, iter), ret.state.Keys[iter],
                          UnsealTokenType)
       IN  \E ok \in BOOLEAN :
              /\ log' = Append(log, CallEvent("put-item", <<>>, item, ok))
              /\ registry' = IF ok THEN PutItem(registry, item) ELSE registry
              /\ ret' = IF ok THEN ret ELSE [ret EXCEPT !.err = ErrPutItem]
              /\ pc' = IF ~ok \/ iter = Len(ret.state.Keys) THEN "done" ELSE pc
              /\ iter' = iter + 1
    /\ UNCHANGED <<initFrame, req, clients, client, vSys>>

NextInit ==
    \/ InitVault
    \/ PutRootHolder
    \/ PutKeyHolder

SpecInit == InitInit /\ [][NextInit]_vars

\* the options pass: shares from 1 to 10, a valid root holder address, as many
\* key holders as shares
Acceptable(o) ==
    /\ o.SecretShares \in 1 .. 10
    /\ o.RootTokenHolderEmail \in {"a@x.io", "root@x.io"}
    /\ Len(o.SecretKeyHolderEmails.val) = o.SecretShares

ValidationErrors ==
    {ErrSharesRequired, ErrSharesGte, ErrSharesLte, ErrRootEmailRequired,
     ErrRootEmailEmail, ErrHoldersRequired, ErrHoldersCount}

ExpectedWrites ==
    <<[Email |-> req.opts.RootTokenHolderEmail, Token |-> "root-token",
       TokenType |-> "root", DateCreated |-> "now", DateInitialized |-> "now",
       DateDelivered |-> ""]>>
    \o [i \in 1 .. req.opts.SecretShares |->
          [Email |-> req.opts.SecretKeyHolderEmails.val[i], Token |-> <<"key", i>>,
           TokenType |-> "unseal", DateCreated |-> "now", DateInitialized |-> "now",
           DateDelivered |-> ""]]

PutItems == SelectSeq(log, LAMBDA e : e.op = "put-item")

\* C28: once Vault is initialized by the request, the items written are a
\* prefix of: root token holder, then key i under holder i; a failed write is
\* the last one tried, ends the call with the error and all generated keys and
\* the root token, and leaves Vault initialized; a call that ends without error
\* has written every item.
C28_PersistInOrder ==
    (/\ pc # "idle"
     /\ req.op = "Init"
     /\ \E i \in 1 .. Len(log) : log[i].op = "init" /\ log[i].ok) =>
        /\ vSys.initialized
        /\ Len(registry.writes) <= Len(ExpectedWrites)
        /\ registry.writes = SubSeq(ExpectedWrites, 1, Len(registry.writes))
        /\ \A i \in 1 .. Len(PutItems) :
              /\ PutItems[i].arg = ExpectedWrites[i]
              /\ ~PutItems[i].ok => (i = Len(PutItems) /\ pc = "done" /\ ret.err # NoErr)
        /\ ret.state = [Keys |-> [i \in 1 .. req.opts.SecretShares |-> <<"key", i>>],
                        RootToken |-> "root-token"]
        /\ (pc = "done" /\ ret.err = NoErr) => registry.writes = ExpectedWrites

\* the second key's write fails after the root token and the first key were
\* written
C28_Witness ==
    /\ pc = "done" /\ req.op = "Init"
    /\ Len(PutItems) = 3 /\ ~PutItems[3].ok
    /\ Len(registry.writes) = 2
    /\ req.opts.SecretKeyHolderEmails.val = <<"a@x.io", "root@x.io">>
    /\ ret.err = ErrPutItem
    /\ Len(ret.state.Keys) = 2

----------------------------------------------------------------------------
\* The health handlers: HealthzStatusHandler and ReadinessHandler, any number
\* of requests in flight. Every step is one critical section of the mutex mu.

\* the most health requests a behaviour serves
MaxRequests == 3

\* the status HealthzStatusHandler sets after reading s, 0 for none
Toggled(s) ==
    IF s = StatusOK THEN StatusServiceUnavailable
    ELSE IF s = StatusServiceUnavailable THEN StatusOK
    ELSE 0

\* policyDirHealth on the staging root: the root afterwards, given how
\* os.MkdirAll goes for a missing one, and whether the check passed
policyDirHealth(dir, mkdir) ==
    IF dir \in {"unset", "empty"} THEN [dir |-> dir, ok |-> FALSE]
    ELSE IF dir = "missing" THEN [dir |-> IF mkdir THEN "ok" ELSE dir, ok |-> mkdir]
    ELSE IF dir = "statfail" THEN [dir |-> dir, ok |-> FALSE]
    ELSE [dir |-> dir, ok |-> TRUE]

\* vaulthealth(): a client is built and sys/init is read
vaulthealth(ve, answered) == VaultClientOf(ve).err = NoErr /\ answered

\* the checks ReadinessHandler runs, given how each would go: the else-if
\* chain stops at the first that fails
ChecksRun(backend, policy, vault) ==
    IF ~backend THEN <<"backend">>
    ELSE IF ~policy THEN <<"backend", "policydir">>
    ELSE <<"backend", "policydir", "vault">>

InitHealth ==
    /\ cfgDir \in {"empty", "missing", "statfail", "ok"}
    /\ vaultEnv \in {PlainSettings, BadAddressSettings}
    /\ req = NoReq
    /\ pc = "idle"
    /\ opts = ZeroOpts
    /\ iter = {}
    /\ state = ZeroState
    /\ ret = NoRet
    /\ log = <<>>
    /\ vMounts = BuiltinMounts
    /\ vAuths = BuiltinAuths
    /\ vPolicies = BuiltinPolicies
    /\ nextID = 1
    /\ fetches = <<>>
    /\ staged = EmptyObj
    /\ clients = 0
    /\ clientToken = ""
    /\ client = NilClient
    /\ validateVar = NilValidator
    /\ self = 1
    /\ other = IdleCall
    /\ SvcIdle

healthFrame ==
    <<vaultEnv, req, pc, opts, iter, state, ret, log, vaultVars, nextID, fetches,
      staged, clients, clientToken, client, validateVar, self, other, vSys, registry,
      received>>

\* a toggle request arrives and runs `switch HealthzStatus()`
HealthzStatusRead ==
    /\ Len(handlers) < MaxRequests
    /\ handlers' = Append(handlers, [kind |-> "toggle", pc |-> "set",
                                     read |-> healthzStatus, answer |-> 0])
    /\ UNCHANGED <<healthFrame, cfgDir, healthzStatus, readinessStatus>>

\* the case of the switch runs SetHealthzStatus, then w.WriteHeader(StatusOK)
HealthzStatusSet ==
    \E i \in 1 .. Len(handlers) :
       /\ handlers[i].kind = "toggle" /\ handlers[i].pc = "set"
       /\ healthzStatus' = IF Toggled(handlers[i].read) = 0 THEN healthzStatus
                           ELSE Toggled(handlers[i].read)
       /\ handlers' = [handlers EXCEPT ![i].pc = "done", ![i].answer = StatusOK]
       /\ UNCHANGED <<healthFrame, cfgDir, readinessStatus>>

\* a readiness request arrives, runs its checks and calls SetReadinessStatus
ReadinessCheck ==
    /\ Len(handlers) < MaxRequests
    /\ \E backend \in BOOLEAN, mkdir \in BOOLEAN, answered \in BOOLEAN :
          LET dirHealth == policyDirHealth(cfgDir, mkdir)
              policy == dirHealth.ok
              vault == vaulthealth(vaultEnv, answered)
              ran == ChecksRun(backend, policy, vault)
              passed == backend /\ policy /\ vault
              status == IF passed THEN StatusOK ELSE StatusServiceUnavailable
          IN  /\ cfgDir' = IF "policydir" \in {ran[k] : k \in 1 .. Len(ran)}
                           THEN dirHealth.dir ELSE cfgDir
              /\ readinessStatus' = status
              /\ handlers' = Append(handlers,
                                 [kind |-> "ready", pc |-> "answer", ran |-> ran,
                                  would |-> [backend |-> backend, policydir |-> policy,
                                             vault |-> vault],
                                  status |-> status, answer |-> 0])
    /\ UNCHANGED <<healthFrame, healthzStatus>>

\* w.WriteHeader(ReadinessStatus())
ReadinessAnswer ==
    \E i \in 1 .. Len(handlers) :
       /\ handlers[i].kind = "ready" /\ handlers[i].pc = "answer"
       /\ handlers' = [handlers EXCEPT ![i].pc = "done", ![i].answer = readinessStatus]
       /\ UNCHANGED <<healthFrame, cfgDir, healthzStatus, readinessStatus>>

NextHealth ==
    \/ HealthzStatusRead
    \/ HealthzStatusSet
    \/ ReadinessCheck
    \/ ReadinessAnswer

SpecHealth == InitHealth /\ [][NextHealth]_vars

Toggles == SelectSeq(handlers, LAMBDA h : h.kind = "toggle")
Readies == SelectSeq(handlers, LAMBDA h : h.kind = "ready")

\* C23: the health status is 200 or 503, every completed toggle request
\* answered 200, and with no toggle request in flight the status is 200 exactly
\* when the number of completed toggle requests is even.
C23_ToggleParity ==
    /\ healthzStatus \in {200, 503}
    /\ \A i \in 1 .. Len(Toggles) : Toggles[i].pc = "done" => Toggles[i].answer = 200
    /\ (\A i \in 1 .. Len(Toggles) : Toggles[i].pc = "done")
          => (healthzStatus = 200 <=> Len(Toggles) % 2 = 0)

\* C29: a readiness request runs backend data, policy directory, Vault in that
\* order up to the first check that fails, sets 503 when one failed and 200
\* when none did, and answers with the status of its own checks.
C29_ReadinessOwnOutcome ==
    \A i \in 1 .. Len(Readies) :
       LET h == Readies[i]
           order == <<"backend", "policydir", "vault">>
           failed == \E k \in 1 .. Len(h.ran) : ~h.would[h.ran[k]]
       IN  /\ h.ran = SubSeq(order, 1, Len(h.ran))
           /\ \A k \in 1 .. Len(h.ran) : ~h.would[h.ran[k]] => k = Len(h.ran)
           /\ Len(h.ran) < 3 => failed
           /\ h.status = (IF failed THEN 503 ELSE 200)
           /\ h.pc = "done" => h.answer = h.status

----------------------------------------------------------------------------
\* C24: once a Configure call has classified its bundle, Actions lists, in the
\* order mount-add, mount-tune, auth-add, auth-disable, policy-add,
\* policy-disable, exactly the kinds whose request map is non-empty, each once;
\* so Actions is empty exactly when all six maps are.
C24_ActionsMatchMaps ==
    (pc # "idle" /\ opts.ConfigID # "") =>
        /\ opts.Actions =
              SelectSeq(<<sysMountAdd, sysMountUpdate, sysAuthAdd, sysAuthDelete,
                          sysPolicyAdd, sysPolicyDelete>>,
                        LAMBDA k : Cardinality(DOMAIN RequestMaps(opts)[k + 1]) > 0)
        /\ (opts.Actions # <<>>) <=>
              (\E k \in 1 .. 6 : Cardinality(DOMAIN RequestMaps(opts)[k]) > 0)

\* a bundle with a mount to tune and a policy to delete, and nothing else
C24_Witness ==
    /\ pc # "idle" /\ opts.ConfigID # ""
    /\ opts.Actions = <<sysMountUpdate, sysPolicyDelete>>
    /\ Cardinality(DOMAIN opts.SysMountAddReq) = 0

----------------------------------------------------------------------------
\* the six kinds, and the files the classified bundle holds
ActionKinds ==
    {"mount-add", "mount-tune", "auth-add", "auth-disable", "policy-add",
     "policy-disable"}
ClassifiedFiles ==
    IF staged[opts.ConfigID].entry = "dir" THEN staged[opts.ConfigID].files ELSE {}

\* C25: the keys of each request map are the namespace-relative paths of the
\* files whose last directory decides that kind: tune or disable as the last
\* of at least two segments, add otherwise. So a/disable/tune under mounts is a
\* tune of a/disable, a/tune/disable under auth is a disable of a/tune, and
\* tune or disable right under the namespace is an add of that name.
C25_TrailingSegmentDecides ==
    pc = "categorized" =>
        /\ \A kind \in ActionKinds :
              DOMAIN MapOf(opts, kind) =
                 { ConfigPathOf(f) : f \in { g \in ClassifiedFiles : KindOf(g) = kind } }
        /\ ClassifiedFiles = {17} =>
              /\ DOMAIN opts.SysMountUpdReq = {<<"a", "/", "disable">>}
              /\ opts.Actions[1] = sysMountUpdate
        /\ ClassifiedFiles = {18} =>
              /\ DOMAIN opts.SysAuthDelReq = {<<"a", "/", "tune">>}
              /\ opts.Actions[1] = sysAuthDelete
        /\ ClassifiedFiles = {12} =>
              /\ DOMAIN opts.SysMountAddReq = {<<"tune">>}
              /\ opts.Actions[1] = sysMountAdd
        /\ ClassifiedFiles = {19} =>
              /\ DOMAIN opts.SysAuthAddReq = {<<"disable">>}
              /\ opts.Actions[1] = sysAuthAdd

\* sys/mounts/a/disable/tune/f.json classified as the tune of a/disable
C25_Witness ==
    /\ pc = "categorized"
    /\ ClassifiedFiles = {17}
    /\ DOMAIN opts.SysMountUpdReq = {<<"a", "/", "disable">>}
    /\ opts.SysMountUpdReq[<<"a", "/", "disable">>].ConfigPath = <<"a", "/", "disable">>
    /\ DOMAIN opts.SysMountAddReq = {}


\* every Vault call of kind first lies before every one of kind second
Precede(first, second) ==
    \A i \in CallsOf({first}), j \in CallsOf({second}) : i < j

\* C26: within one namespace every add call is issued before any tune or
\* disable call: every mount call lies before every tune call, every
\* auth-enable before every auth-disable, every policy-put before every
\* policy-delete. After a successful Configure, an auth path or policy name
\* that the bundle both adds and disables is absent from Vault and from the
\* returned listing, and a mount that the bundle both adds and tunes was
\* created by the bundle's mount call and then tuned, so Vault holds the
\* created mount with the tuned lease values.
C26_AddBeforeTuneDisable ==
    /\ Precede("mount", "tune-mount")
    /\ Precede("auth-enable", "auth-disable")
    /\ Precede("policy-put", "policy-delete")
    /\ Succeeded =>
          /\ \A p \in DOMAIN opts.SysAuthAddReq \cap DOMAIN opts.SysAuthDelReq :
                /\ VaultKey(p) \notin DOMAIN vAuths
                /\ ret.state.Auths.set => VaultKey(p) \notin DOMAIN ret.state.Auths.val
          /\ \A p \in DOMAIN opts.SysPolicyAddReq \cap DOMAIN opts.SysPolicyDelReq :
                /\ p \notin DOMAIN vPolicies
                /\ ret.state.Policies.set => p \notin ret.state.Policies.val
          /\ \A p \in DOMAIN opts.SysMountAddReq \cap DOMAIN opts.SysMountUpdReq :
                \E i \in CallsFor("mount", p), j \in TuneCalls(p) :
                   /\ i < j
                   /\ log[i].ok /\ log[j].ok
                   /\ vMounts[VaultKey(p)] = Tuned(Mounted(log[i].arg), log[j].arg)
                   /\ ret.state.Mounts.set
                   /\ VaultKey(p) \in DOMAIN ret.state.Mounts.val

\* a bundle that enabled and then disabled the auth backend a
C26_Witness ==
    /\ Succeeded
    /\ <<"a">> \in DOMAIN opts.SysAuthAddReq \cap DOMAIN opts.SysAuthDelReq
    /\ \E i \in CallsFor("auth-enable", <<"a">>) : log[i].ok
    /\ \E i \in CallsFor("auth-disable", <<"a">>) : log[i].ok


----------------------------------------------------------------------------
\* Configure through the transports: the server endpoint, the HTTP and gRPC
\* codecs, the client endpoint.

\* String2Error and Error2String: the empty string stands for no error
Error2String(err) == IF err = NoErr THEN "" ELSE err
String2Error(s) == IF s = "" THEN NoErr ELSE s

\* the test `m != nil && len(m) > 0` on a map
HasEntries(m) == m.set /\ DOMAIN m.val # {}

\* the same test on the slice of policy names
HasNames(p) == p.set /\ p.val # {}

\* the copy of one mount or auth backend between the service's type and the
\* endpoint's type, which has no Path
EndpointOutput(v) ==
    [Type |-> v.Type, Description |-> v.Description,
     Config |-> [DefaultLeaseTTL |-> v.Config.DefaultLeaseTTL,
                 MaxLeaseTTL |-> v.Config.MaxLeaseTTL]]

ServiceOutput(v) ==
    [Path |-> "", Type |-> v.Type, Description |-> v.Description,
     Config |-> [DefaultLeaseTTL |-> v.Config.DefaultLeaseTTL,
                 MaxLeaseTTL |-> v.Config.MaxLeaseTTL]]

\* MakeConfigureEndpoint: the ConfigureResponse made of what the service
\* returned
ConfigureResponse(st, err) ==
    [ConfigID |-> st.ConfigID,
     Mounts |-> IF HasEntries(st.Mounts)
                THEN Set([k \in DOMAIN st.Mounts.val |-> EndpointOutput(st.Mounts.val[k])])
                ELSE Unset,
     Auths |-> IF HasEntries(st.Auths)
               THEN Set([k \in DOMAIN st.Auths.val |-> EndpointOutput(st.Auths.val[k])])
               ELSE Unset,
     Policies |-> IF HasNames(st.Policies) THEN st.Policies ELSE Unset,
     Err |-> err]

\* encoding/json of a MountOutput or AuthMountOutput: description and the
\* two lease values are omitempty
OutputJSON(v) ==
    LET ttl == IF v.Config.DefaultLeaseTTL = 0 THEN EmptyObj
               ELSE Put(EmptyObj, "default_lease_ttl", v.Config.DefaultLeaseTTL)
        config == IF v.Config.MaxLeaseTTL = 0 THEN ttl
                  ELSE Put(ttl, "max_lease_ttl", v.Config.MaxLeaseTTL)
        always == Put(Put(EmptyObj, "type", v.Type), "config", config)
    IN  IF v.Description = "" THEN always ELSE Put(always, "description", v.Description)

OutputFromJSON(j) ==
    [Type |-> j.type,
     Description |-> IF "description" \in DOMAIN j THEN j.description ELSE "",
     Config |-> [DefaultLeaseTTL |-> IF "default_lease_ttl" \in DOMAIN j.config
                                     THEN j.config.default_lease_ttl ELSE 0,
                 MaxLeaseTTL |-> IF "max_lease_ttl" \in DOMAIN j.config
                                 THEN j.config.max_lease_ttl ELSE 0]]

\* encoding/json of a ConfigureResponse: every field but Err, each omitempty
ConfigureJSON(r) ==
    LET id == IF r.ConfigID = "" THEN EmptyObj ELSE Put(EmptyObj, "config_id", r.ConfigID)
        mounts == IF ~HasEntries(r.Mounts) THEN id
                  ELSE Put(id, "mounts",
                           [k \in DOMAIN r.Mounts.val |-> OutputJSON(r.Mounts.val[k])])
        auths == IF ~HasEntries(r.Auths) THEN mounts
                 ELSE Put(mounts, "auths",
                          [k \in DOMAIN r.Auths.val |-> OutputJSON(r.Auths.val[k])])
    IN  IF ~HasNames(r.Policies) THEN auths ELSE Put(auths, "policies", r.Policies.val)

\* json.Unmarshal into a zero ConfigureResponse
ConfigureFromJSON(j) ==
    [ConfigID |-> IF "config_id" \in DOMAIN j THEN j.config_id ELSE "",
     Mounts |-> IF "mounts" \in DOMAIN j
                THEN Set([k \in DOMAIN j.mounts |-> OutputFromJSON(j.mounts[k])])
                ELSE Unset,
     Auths |-> IF "auths" \in DOMAIN j
               THEN Set([k \in DOMAIN j.auths |-> OutputFromJSON(j.auths[k])])
               ELSE Unset,
     Policies |-> IF "policies" \in DOMAIN j THEN Set(j.policies) ELSE Unset,
     Err |-> NoErr]

\* EncodeGenericResponse on a ConfigureResponse: a failed one is answered by
\* errorEncoder with the error text alone
HTTPConfigureReply(r) ==
    IF r.Err # NoErr THEN [code |-> 500, error |-> r.Err]
    ELSE [code |-> StatusOK, body |-> ConfigureJSON(r)]

\* DecodeConfigureResponse of the HTTP client
HTTPConfigureDecoded(reply) ==
    IF reply.code # StatusOK THEN [response |-> ConfigureResponse(ZeroState, NoErr),
                                   err |-> reply.error]
    ELSE [response |-> ConfigureFromJSON(reply.body), err |-> NoErr]

\* the pb.MountOutput or pb.AuthMountOutput of an output: the lease values
\* travel as uint32
PbOutput(v) ==
    [Type |-> v.Type, Description |-> v.Description,
     Config |-> [DefaultLeaseTtl |-> Uint32(v.Config.DefaultLeaseTTL),
                 MaxLeaseTtl |-> Uint32(v.Config.MaxLeaseTTL)]]

FromPbOutput(v) ==
    [Type |-> v.Type, Description |-> v.Description,
     Config |-> [DefaultLeaseTTL |-> v.Config.DefaultLeaseTtl,
                 MaxLeaseTTL |-> v.Config.MaxLeaseTtl]]

\* EncodeConfigureResponse of the gRPC server
EncodeConfigureResponse(r) ==
    [ConfigStatus |->
        [ConfigId |-> r.ConfigID,
         Mounts |-> IF HasEntries(r.Mounts)
                    THEN Set([k \in DOMAIN r.Mounts.val |-> PbOutput(r.Mounts.val[k])])
                    ELSE Unset,
         Auths |-> IF HasEntries(r.Auths)
                   THEN Set([k \in DOMAIN r.Auths.val |-> PbOutput(r.Auths.val[k])])
                   ELSE Unset,
         Policies |-> IF HasNames(r.Policies) THEN r.Policies ELSE Unset],
     Err |-> Error2String(r.Err)]

\* DecodeConfigureResponse of the gRPC client
DecodeConfigureResponse(reply) ==
    LET s == reply.ConfigStatus
    IN  [response |->
            [ConfigID |-> s.ConfigId,
             Mounts |-> IF HasEntries(s.Mounts)
                        THEN Set([k \in DOMAIN s.Mounts.val |-> FromPbOutput(s.Mounts.val[k])])
                        ELSE Unset,
             Auths |-> IF HasEntries(s.Auths)
                       THEN Set([k \in DOMAIN s.Auths.val |-> FromPbOutput(s.Auths.val[k])])
                       ELSE Unset,
             Policies |-> IF HasNames(s.Policies) THEN s.Policies ELSE Unset,
             Err |-> String2Error(reply.Err)],
         err |-> NoErr]

\* Endpoints.Configure: what the caller of the client gets from the decoded
\* response
ConfigureClientResult(d) ==
    IF d.err # NoErr THEN [state |-> ZeroState, err |-> d.err]
    ELSE LET r == d.response
         IN  [state |->
                 [ConfigID |-> r.ConfigID,
                  Mounts |-> IF HasEntries(r.Mounts)
                             THEN Set([k \in DOMAIN r.Mounts.val |->
                                          ServiceOutput(r.Mounts.val[k])])
                             ELSE Unset,
                  Auths |-> IF HasEntries(r.Auths)
                            THEN Set([k \in DOMAIN r.Auths.val |->
                                         ServiceOutput(r.Auths.val[k])])
                            ELSE Unset,
                  Policies |-> IF HasNames(r.Policies) THEN r.Policies ELSE Unset],
              err |-> r.Err]

\* the bundles of the transport runs: files that add, tune and disable the
\* mount, the auth backend and the policy named a
TransportFiles == {2, 3, 7, 10, 13, 14}
TransportSources ==
    { [entry |-> "dir", files |-> fs, bad |-> {}] :
        fs \in { s \in SUBSET TransportFiles : s # {} /\ Cardinality(s) <= 2 } }

\* A Configure call that passed validation, against a Vault that holds its
\* builtin entries or one whose listings hold no entry.
InitTransport ==
    /\ cfgDir = "ok"
    /\ vaultEnv = PlainSettings
    /\ req = ClientRequest
    /\ pc = "NewVaultClient"
    /\ \E src \in TransportSources :
          /\ opts = validate("ok", ClientRequest, 1, src).opts
          /\ staged = Put(EmptyObj, ToString(1), src)
    /\ iter = {}
    /\ state = ZeroState
    /\ ret = NoRet
    /\ log = <<>>
    /\ \E builtin \in BOOLEAN :
          /\ vMounts = IF builtin THEN BuiltinMounts ELSE EmptyObj
          /\ vAuths = IF builtin THEN BuiltinAuths ELSE EmptyObj
          /\ vPolicies = IF builtin THEN BuiltinPolicies ELSE EmptyObj
    /\ nextID = 2
    /\ fetches = <<[dst |-> SrcDest(1), url |-> "file:///bundle"]>>
    /\ clients = 0
    /\ clientToken = ""
    /\ client = NilClient
    /\ validateVar = NewValidator(1)
    /\ self = 1
    /\ other = IdleCall
    /\ SvcIdle

transportFrame ==
    <<cfgVars, vaultEnv, req, ret, log, clients, client, vSys, registry, healthVars>>

\* the reply to the HTTP client of Configure
ConfigureRespondHTTP ==
    /\ pc = "done"
    /\ pc' = "replied"
    /\ received' = [op |-> "Configure", via |-> "http",
                    result |-> ConfigureClientResult(
                                  HTTPConfigureDecoded(
                                     HTTPConfigureReply(ConfigureResponse(ret.state, ret.err))))]
    /\ UNCHANGED transportFrame

\* the reply to the gRPC client of Configure
ConfigureRespondGRPC ==
    /\ pc = "done"
    /\ pc' = "replied"
    /\ received' = [op |-> "Configure", via |-> "grpc",
                    result |-> ConfigureClientResult(
                                  DecodeConfigureResponse(
                                     EncodeConfigureResponse(
                                        ConfigureResponse(ret.state, ret.err))))]
    /\ UNCHANGED transportFrame

NextTransport ==
    \/ NewVaultClient
    \/ addSysMounts
    \/ tuneSysMounts
    \/ listMounts
    \/ addSysAuths
    \/ deleteSysAuths
    \/ listAuths
    \/ addSysPolicies
    \/ deleteSysPolicies
    \/ listPolicies
    \/ Return
    \/ ConfigureRespondHTTP
    \/ ConfigureRespondGRPC

SpecTransport == InitTransport /\ [][NextTransport]_vars

\* C30: the ConfigState the caller of a transport client gets from
\* Configure is the ConfigState the service returned: a collection that is
\* set arrives set, an unset one unset, and the config_id, the keys and the
\* values are the same.
C30_ConfigStateRoundTrip ==
    (pc = "replied" /\ received.op = "Configure") =>
        received.result.state = ret.state

====
